---- MODULE Spec2Model ----
(***************************************************************************)
(* Verification model of the ncatbot event-dispatch and plugin-lifecycle   *)
(* kernel.                                                                 *)
(*                                                                         *)
(*   EventBus            core/client/event_bus.py                          *)
(*   PluginConfigService core/service/builtin/plugin_config_service.py     *)
(*   ConfigItem          core/service/builtin/plugin_config_types.py       *)
(*   ServiceManager      core/service/manager.py                           *)
(*   EventParser         core/event/parser.py, core/event/events.py        *)
(*   RBAC engine         as the tests under test/ use it                   *)
(*                                                                         *)
(* Strings are sequences of one-character strings, so that split, join,    *)
(* startswith and the comparison of handler names are computed the way     *)
(* Python computes them.                                                   *)
(***************************************************************************)
EXTENDS Integers, Sequences, FiniteSets, TLC

\* ------------------------------------------------------------------------
\* Bounds of the model
\* ------------------------------------------------------------------------

\* subscribe() calls in one run of the bus (each draws a fresh uuid4)
MaxSubs == 2

\* unsubscribe() calls in one run of the bus
MaxUnsubs == 1

\* set / set_atomic calls in one run of the config store
MaxSets == 2

\* save tasks scheduled on the event loop at the same time
MaxTasks == 2

\* loads of the plugin in one run of the loader
MaxLoads == 2

\* calls made to the service manager in one run
MaxSvcCalls == 5

\* payloads the dispatcher is given in one run
MaxDispatch == 3

\* the largest identifier on the wire
MaxWireId == 12

\* segments of a permission path
MaxSegs == 3

\* dependencies one manifest names
MaxDeps == 2

\* characters of a plugin name
MaxNameLen == 2

\* plugins discovered
MaxPlugins == 3

\* loads and unloads of plugin modules
MaxImports == 3

\* starts of the bot by run_backend_async
MaxStarts == 2

\* coroutines that call load or load_all of the service manager at a time
MaxLoaders == 2

\* modification times a watched file goes through
MaxMtime == 2

\* ------------------------------------------------------------------------
\* Python strings
\* ------------------------------------------------------------------------

\* Optional values: None, or a value v held as Some(v)
None == <<>>

Some(v) == <<v>>

\* ord() of the characters the model uses
Ord(c) ==
    CASE c = "(" -> 40
      [] c = "." -> 46
      [] c = ":" -> 58
      [] c = "\\" -> 92
      [] c = "*" -> 42
      [] c = "a" -> 97
      [] c = "b" -> 98
      [] c = "e" -> 101
      [] c = "r" -> 114

\* str.__lt__ : lexicographic by code point, a proper prefix is smaller
RECURSIVE StrLess(_, _)
StrLess(s, t) ==
    IF t = <<>> THEN FALSE
    ELSE IF s = <<>> THEN TRUE
    ELSE IF Ord(Head(s)) < Ord(Head(t)) THEN TRUE
    ELSE IF Ord(Head(s)) > Ord(Head(t)) THEN FALSE
    ELSE StrLess(Tail(s), Tail(t))

\* str.startswith
StartsWith(s, p) ==
    /\ Len(p) <= Len(s)
    /\ SubSeq(s, 1, Len(p)) = p

\* a split that finds no ".", to show what the prefix rule owes to the split
SplitNone(s) == <<s>>

\* str.split(".") : always at least one part, parts may be empty
RECURSIVE SplitDot(_)
SplitDot(s) ==
    IF \A i \in 1..Len(s) : s[i] # "."
    THEN <<s>>
    ELSE LET k == CHOOSE i \in 1..Len(s) :
                     /\ s[i] = "."
                     /\ \A j \in 1..(i - 1) : s[j] # "."
         IN <<SubSeq(s, 1, k - 1)>> \o SplitDot(SubSeq(s, k + 1, Len(s)))

\* ".".join(parts)
RECURSIVE JoinDot(_)
JoinDot(parts) ==
    IF parts = <<>> THEN <<>>
    ELSE IF Len(parts) = 1 THEN parts[1]
    ELSE parts[1] \o <<".">> \o JoinDot(Tail(parts))

\* ------------------------------------------------------------------------
\* re.compile / Pattern.match for the pattern syntax the model uses:
\* a literal character, "." (any character), "\." (a literal dot), and a
\* trailing "*" on either; an unbalanced "(" is re.error.  The compiled
\* pattern is [err, items]: err for re.error, else the items to match.
\* ------------------------------------------------------------------------

ReError == [err |-> TRUE, items |-> <<>>]

RECURSIVE ReParse(_)
ReParse(p) ==
    IF p = <<>> THEN [err |-> FALSE, items |-> <<>>]
    ELSE IF Head(p) \in {"(", "*"} THEN ReError
    ELSE
      LET esc  == Head(p) = "\\"
          body == IF esc THEN Tail(p) ELSE p
      IN IF body = <<>> THEN ReError
         ELSE
           LET rest == Tail(body)
               star == rest # <<>> /\ Head(rest) = "*"
               item == [ch |-> Head(body), any |-> (~esc /\ Head(body) = "."),
                        star |-> star]
               tl   == ReParse(IF star THEN Tail(rest) ELSE rest)
           IN IF tl.err THEN ReError
              ELSE [err |-> FALSE, items |-> <<item>> \o tl.items]

\* the items match at the start of s (not the whole of s)
RECURSIVE ItemsMatch(_, _)
ItemsMatch(items, s) ==
    IF items = <<>> THEN TRUE
    ELSE
      LET it   == Head(items)
          hit  == s # <<>> /\ (it.any \/ Head(s) = it.ch)
      IN IF it.star
         THEN \/ ItemsMatch(Tail(items), s)
              \/ (hit /\ ItemsMatch(items, Tail(s)))
         ELSE hit /\ ItemsMatch(Tail(items), Tail(s))

\* Pattern.match(s)
ReMatch(pattern, s) == ItemsMatch(pattern.items, s)

\* _compile_regex(pattern): the compiled pattern, or err (raise ValueError)
_compile_regex(pattern) == ReParse(pattern)

\* ------------------------------------------------------------------------
\* Inputs of the event bus
\* ------------------------------------------------------------------------

\* EventBus.__init__(default_timeout=120)
default_timeout == 120

\* plugin.meta_data of the one plugin that subscribes with plugin=self
PluginMeta == [name |-> "P"]

\* that plugin object
ThePlugin == [meta_data |-> PluginMeta]

\* the placeholder publish uses when no owner metadata is registered
UnknownMeta == [name |-> "Unknown"]

\* The callables that get subscribed: __name__, whether the callable is a
\* plain function (run through asyncio.to_thread) or a coroutine function,
\* and the plugin and timeout its registration passes to subscribe().
hA  == [name |-> <<"a">>,      sync |-> FALSE, plugin |-> Some(ThePlugin), timeout |-> Some(1)]

hAB == [name |-> <<"a", "b">>, sync |-> TRUE,  plugin |-> None,            timeout |-> None]

\* event_type arguments of subscribe()
T_a     == <<"a">>

T_a_b   == <<"a", ".", "b">>

T_ab    == <<"a", "b">>

T_a_b_c == <<"a", ".", "b", ".", "c">>

T_re_a  == <<"r", "e", ":", "a">>

T_re_bad == <<"r", "e", ":", "(">>

\* The subscribe() calls a run draws from: three priorities, equal
\* priorities with the names in the opposite order of the buckets (exact
\* "a" before regex), a higher priority in a later bucket (prefix "a"
\* behind exact "a.b"), a regex that matches by prefix, and an invalid
\* regex subscribed by a plugin.
SubscribeCalls ==
    { [event_type |-> T_a,      handler |-> hA,  priority |-> 100],
      [event_type |-> T_a,      handler |-> hAB, priority |-> 50],
      [event_type |-> T_a_b,    handler |-> hA,  priority |-> 1],
      [event_type |-> T_re_a,   handler |-> hA,  priority |-> 50],
      [event_type |-> T_re_bad, handler |-> hA,  priority |-> 1] }

\* event.type of published events: "a", "ab", "a.b.c"
EventTypes == { T_a, T_ab, T_a_b_c }

RePrefix == <<"r", "e", ":">>

\* what a handler invocation can raise: an Exception subclass (other than
\* asyncio.TimeoutError), or a BaseException that is no Exception
\* (asyncio.CancelledError, SystemExit, KeyboardInterrupt)
RaisedClasses == {"Exception", "BaseException"}

\* ------------------------------------------------------------------------
\* State
\* ------------------------------------------------------------------------

VARIABLES
    \* EventBus
    exact,          \* self._exact : type string -> list of subscription tuples
    regex,          \* self._regex : list of subscription tuples
    handler_meta,   \* self._handler_meta : hid -> plugin meta_data
    nextHid,        \* the next uuid4 (fresh on every subscribe call)
    \* one publish() coroutine
    pc,             \* "idle", "await" (inside asyncio.wait_for) or "done"
    handlers,       \* the list _collect_handlers returned
    idx,            \* position in handlers of the handler awaited / last run
    event,          \* the NcatBotEvent: type, _results, _exceptions, _propagation_stopped
    outcome,        \* how publish ended: "none", "returned" or "raised"
    returned,       \* the list publish returned
    threads,        \* worker threads still running a sync handler of this event
    \* history (not program state)
    removed,        \* the subscriptions that unsubscribe calls have taken out
    removedBefore,  \* removed, as it was when this publish started
    nUnsub,         \* unsubscribe calls made
    log,            \* per invocation of this publish: what the handler did
    stopper         \* positions in handlers of the handlers that set the stop flag

busVars == <<exact, regex, handler_meta, nextHid, pc, handlers, idx, event,
             outcome, returned, threads, removed, removedBefore, nUnsub, log,
             stopper>>

VARIABLES
    \* PluginConfigService
    configs,        \* self._configs : plugin -> name -> value
    config_items,   \* self._config_items : plugin -> name -> ConfigItem
    dirty,          \* self._dirty
    tasks,          \* the _save_to_file() tasks created on the event loop
    \* the file system
    cfgFile,        \* the file at CONFIG_PATH: missing, or its content
    tmpFile,        \* the sibling .tmp file: missing, or its content
    \* history (not program state)
    acked,          \* (plugin, name) -> value of the last write, where that was a
                    \* set_atomic that returned with no file error logged
    nSets,          \* set / set_atomic calls made
    shared,         \* the (plugin, name) whose stored value is the very object
                    \* that the ConfigItem of that name holds as its default
    regRaised,      \* what the last register_config call raised, or None
    unloads         \* the plugins the loader has unloaded from this service

cfgVars == <<configs, config_items, dirty, tasks, cfgFile, tmpFile, acked, nSets,
             shared, regRaised, unloads>>

VARIABLES
    \* the plugin loader and the unified command registry
    ldr,            \* where the plugin is in its lifecycle, and the step it is at
    plugins,        \* loaded plugin -> the subscription ids it owns
    commands,       \* the registered commands: name and owning plugin
    aliases,        \* the registered aliases: name and owning plugin
    \* history (not program state)
    firstLoad,      \* what was registered for the plugin when its first load ended
    nLoads          \* loads of the plugin started

ldrVars == <<ldr, plugins, commands, aliases, firstLoad, nLoads>>

VARIABLES
    \* ServiceManager
    service_classes, \* self._service_classes: the registered names, in dict order
    services,        \* self._services: name and instance, in dict order
    nextInst,        \* the next service instance to be constructed
    \* history (not program state)
    lastCall,        \* the last call made to the manager and what it did
    failedLoads,     \* the instances whose _load() raised, with their names
    nCalls           \* calls made to the manager

svcVars == <<service_classes, services, nextInst, lastCall, failedLoads, nCalls>>

VARIABLES
    \* EventParser / EventDispatcher
    wire,           \* the payload last given to EventParser.parse
    parseOut,       \* what that parse returned or raised
    \* history (not program state)
    dispatched,     \* what the last dispatch did, and the payloads dropped so far
    nDispatch       \* payloads given to dispatch

gwVars == <<wire, parseOut, dispatched, nDispatch>>

VARIABLES
    \* RBAC engine
    users,          \* user id -> its roles, white list and black list
    roles,          \* role name -> its parent, white list and black list
    \* history (not program state)
    lastCheck,      \* the last check: its arguments, its result, and whether a
                    \* black and a white entry matched when it ran
    inheritRaised   \* what the last set_role_inheritance raised

rbacVars == <<users, roles, lastCheck, inheritRaised>>

\* The permission trie and the path matcher
VARIABLES
    trie,           \* the concrete paths added to a permission trie
    pathCall        \* the last add_path or matching_path: its arguments, its
                    \* result and what it raised

pathVars == <<trie, pathCall>>

\* The dependency resolver of the plugin loader
VARIABLES
    graph,          \* plugin name -> the names it depends on, as built
    resolved        \* the last resolve: the order it returned, what it raised

depVars == <<graph, resolved>>

\* The file watcher: its thread and the calls of the main thread
VARIABLES
    _paused,          \* the pause gate: set while dispatch is allowed
    _pending_dirs,    \* first-level directories with a change not dispatched
    _reload_callback, \* whether a reload callback is set
    elapsed,          \* time since _last_process_time, capped at debounce_delay
    wpc,              \* where the watcher thread is in its loop
    dirs_to_process,  \* the directories of the round not yet passed on
    round,            \* the round since the last scan: its snapshot and
                      \* whether a callback was set when it began
    called,           \* the directories passed to the callback since the
                      \* last scan, in order
    ends,             \* how each of those callbacks ended
    failedBefore,     \* a callback raised an Exception before the last scan
    fatal             \* a callback raised a BaseException that is no
                      \* Exception

fwVars == <<_paused, _pending_dirs, _reload_callback, elapsed, wpc,
            dirs_to_process, round, called, ends, failedBefore, fatal>>

\* The lifecycle manager
VARIABLES
    _running,       \* LifecycleManager._running
    phase,          \* "new", "prepared" (startup has begun) or "stopped"
    lastRun         \* the core execution: how it ended and what its cleanup
                    \* did

lcVars == <<_running, phase, lastRun>>

\* The module importer of the plugin loader
VARIABLES
    _sanitized_names, \* plugin name -> sanitized name
    _used_sanitized,  \* the sanitized names given out
    sys_modules,      \* sys.modules: key -> the module object registered
    sys_path,         \* sys.path
    nextModule,       \* the next module object
    importCall,       \* the last load or unload: its plugin, sys.modules and
                      \* sys.path as it began, what it raised
    nImports          \* loads and unloads so far

impVars == <<_sanitized_names, _used_sanitized, sys_modules, sys_path,
             nextModule, importCall, nImports>>

\* The background run of the lifecycle manager: the core task on the event
\* loop and the coroutines that start and stop it
VARIABLES
    api,            \* self.api is a BotAPI (FALSE: None)
    _startup_event, \* self._startup_event: "none", "clear" or "set"
    _main_task,     \* self._main_task: "none", or the await the core task
                    \* is suspended at, or "done"
    cancelling,     \* cancel() was called on the task and CancelledError is
                    \* not yet raised in it
    leaving,        \* what is leaving _core_execution while its finally
                    \* clause runs
    taskResult,     \* how the finished task ended
    servicesUp,     \* services are loaded
    pluginsUp,      \* plugins are loaded
    starter,        \* the run_backend_async call that created the task:
                    \* "idle", "waiting", "returned" or "raised"
    closer,         \* the shutdown call: "idle" or "awaiting"
    \* history (not program state)
    progress,       \* what the core task has completed of its startup
    lastReturn,     \* the last return of a run_backend_async call
    lastShutdown,   \* the last return of a shutdown call
    reported,       \* what the last bot_exit or shutdown call found
    nStarts         \* core tasks created

runVars == <<api, _startup_event, _main_task, cancelling, leaving, taskResult,
             servicesUp, pluginsUp, starter, closer, progress, lastReturn,
             lastShutdown, reported, nStarts>>

\* Coroutines on one event loop that call ServiceManager.load and load_all
VARIABLES
    loaders,        \* per coroutine: where it is in its call, the service
                    \* whose _load() it awaits and the names load_all has
                    \* still to visit
    \* history (not program state)
    awaited         \* the instances whose _load() was awaited, with their
                    \* names

raceVars == <<loaders, awaited>>

\* The scans of the file watcher over its watch directories
VARIABLES
    _watch_dirs,       \* self._watch_dirs
    _file_cache,       \* self._file_cache: file path -> modification time
    _first_scan_done,  \* self._first_scan_done
    disk,              \* the .py files on disk: path -> modification time
    \* history (not program state)
    scanned            \* the watch directories scanned so far

scanVars == <<_watch_dirs, _file_cache, _first_scan_done, disk, scanned>>

\* the state of the components modelled last
lateVars == <<runVars, raceVars, scanVars>>

\* the state of the components that follow the RBAC engine
restVars == <<pathVars, depVars, fwVars, lcVars, impVars, lateVars>>

vars == <<busVars, cfgVars, ldrVars, svcVars, gwVars, rbacVars, restVars>>

\* the state outside the event bus, and outside the config store
outsideBus == <<cfgVars, ldrVars, svcVars, gwVars, rbacVars, restVars>>

outsideCfg == <<busVars, ldrVars, svcVars, gwVars, rbacVars, restVars>>

\* ------------------------------------------------------------------------
\* EventBus: subscription tables
\* ------------------------------------------------------------------------

\* key=lambda t: (-t[1], t[2].__name__), compared as Python compares tuples
SortKeyLess(x, y) ==
    \/ -x.priority < -y.priority
    \/ (-x.priority = -y.priority /\ StrLess(x.handler.name, y.handler.name))

\* a list left in the order of its appends, to show what the dispatch
\* order owes to the sort
KeepOrder(seq) == seq

\* one step of a stable sort: x goes behind every element that is not greater
InsertByKey(sorted, x) ==
    LET later == { i \in 1..Len(sorted) : SortKeyLess(x, sorted[i]) }
    IN IF later = {} THEN Append(sorted, x)
       ELSE LET k == CHOOSE i \in later : \A j \in later : i <= j
            IN SubSeq(sorted, 1, k - 1) \o <<x>> \o SubSeq(sorted, k, Len(sorted))

\* list.sort(key=...) : stable
RECURSIVE SortByKey(_)
SortByKey(seq) ==
    IF seq = <<>> THEN <<>>
    ELSE InsertByKey(SortByKey(SubSeq(seq, 1, Len(seq) - 1)), seq[Len(seq)])

\* a filter that drops nothing, to show what unsubscribe owes to it
KeepAll(seq, handler_id) == seq

\* [h for h in seq if h[3] != handler_id]
RECURSIVE WithoutId(_, _)
WithoutId(seq, handler_id) ==
    IF seq = <<>> THEN <<>>
    ELSE IF Head(seq).hid = handler_id THEN WithoutId(Tail(seq), handler_id)
    ELSE <<Head(seq)>> \o WithoutId(Tail(seq), handler_id)

\* the subscriptions held by the tables
TableEntries ==
    { regex[i] : i \in 1..Len(regex) }
    \cup UNION { { exact[t][i] : i \in 1..Len(exact[t]) } : t \in DOMAIN exact }

\* _collect_handlers(event_type), on given tables
CollectFrom(ex, rx, event_type) ==
    LET exact_handlers == IF event_type \in DOMAIN ex THEN ex[event_type] ELSE <<>>
        parts == SplitDot(event_type)
        \* for i in range(len(parts) - 1, 0, -1)
        PrefixFrom[i \in 0..(Len(parts) - 1)] ==
            IF i = 0 THEN <<>>
            ELSE LET prefix == JoinDot(SubSeq(parts, 1, i))
                 IN (IF prefix \in DOMAIN ex THEN ex[prefix] ELSE <<>>)
                    \o PrefixFrom[i - 1]
        prefix_handlers == PrefixFrom[Len(parts) - 1]
        regex_handlers ==
            SelectSeq(rx, LAMBDA t : t.pattern # None /\ ReMatch(t.pattern[1], event_type))
    IN SortByKey(exact_handlers \o prefix_handlers \o regex_handlers)

_collect_handlers(event_type) == CollectFrom(exact, regex, event_type)

\* The frame of publish() as seen by another operation on the bus: a
\* publish that is suspended stays as it is, one that has ended is gone
\* (its event and its result belong to the caller).
FrameKept ==
    IF pc = "done"
    THEN /\ pc' = "idle"
         /\ handlers' = <<>>
         /\ idx' = 0
         /\ event' = [type |-> <<>>, results |-> <<>>, exceptions |-> <<>>,
                      stopped |-> FALSE]
         /\ outcome' = "none"
         /\ returned' = <<>>
         /\ log' = <<>>
         /\ stopper' = {}
         /\ threads' = {}
         /\ removedBefore' = {}
    ELSE UNCHANGED <<pc, handlers, idx, event, outcome, returned, threads, log, stopper,
                     removedBefore>>

\* subscribe(event_type, handler, priority, timeout, plugin), as it acts
\* on the bus
SubscribeCall(event_type, handler, priority, timeout, plugin) ==
    /\ LET hid         == nextHid
           timeout_val == IF timeout # None THEN timeout[1] ELSE default_timeout
           meta        == IF plugin # None
                          THEN [h \in DOMAIN handler_meta \cup {hid} |->
                                  IF h = hid THEN plugin[1].meta_data ELSE handler_meta[h]]
                          ELSE handler_meta
           isRegex     == StartsWith(event_type, RePrefix)
           pattern     == _compile_regex(SubSeq(event_type, 4, Len(event_type)))
           entry       == [pattern |-> IF isRegex THEN Some(pattern) ELSE None,
                           priority |-> priority,
                           handler |-> handler, hid |-> hid, timeout |-> timeout_val]
           bucket      == IF event_type \in DOMAIN exact THEN exact[event_type] ELSE <<>>
       IN /\ nextHid' = nextHid + 1
          /\ handler_meta' = meta
          /\ IF isRegex
             THEN /\ exact' = exact
                  \* _compile_regex raises ValueError: nothing is appended
                  /\ regex' = IF pattern.err THEN regex
                              ELSE SortByKey(Append(regex, entry))
             ELSE /\ regex' = regex
                  /\ exact' = [t \in DOMAIN exact \cup {event_type} |->
                                 IF t = event_type THEN SortByKey(Append(bucket, entry))
                                 ELSE exact[t]]
    /\ FrameKept
    /\ UNCHANGED <<removed, nUnsub>>

\* subscribe(event_type, handler, priority, timeout, plugin)
Subscribe(event_type, handler, priority, timeout, plugin) ==
    /\ nextHid <= MaxSubs
    /\ SubscribeCall(event_type, handler, priority, timeout, plugin)
    /\ UNCHANGED outsideBus

\* unsubscribe leaves the owner metadata of the id in place
MetaKept(handler_id) == handler_meta

\* self._handler_meta after: if handler_id in it, del it
MetaWithout(handler_id) ==
    [h \in DOMAIN handler_meta \ {handler_id} |-> handler_meta[h]]

\* unsubscribe(handler_id), as it acts on the bus
UnsubscribeCall(handler_id) ==
    /\ handler_meta' = MetaWithout(handler_id)
    /\ LET filtered == [t \in DOMAIN exact |-> WithoutId(exact[t], handler_id)]
       IN exact' = [t \in { u \in DOMAIN exact : filtered[u] # <<>> } |-> filtered[t]]
    /\ regex' = WithoutId(regex, handler_id)
    /\ removed' = removed \cup { t \in TableEntries : t.hid = handler_id }
    /\ FrameKept
    /\ UNCHANGED nextHid

\* unsubscribe(handler_id), handler_id being an id some subscribe call has
\* made (it may have raised, or the id may be unsubscribed already)
Unsubscribe(handler_id) ==
    /\ nUnsub < MaxUnsubs
    /\ handler_id < nextHid
    /\ nUnsub' = nUnsub + 1
    /\ UnsubscribeCall(handler_id)
    /\ UNCHANGED outsideBus

\* shutdown()
Shutdown ==
    /\ exact' = <<>>
    /\ regex' = <<>>
    /\ handler_meta' = <<>>
    /\ FrameKept
    /\ UNCHANGED <<nextHid, removed, nUnsub>>
    /\ UNCHANGED outsideBus

\* ------------------------------------------------------------------------
\* EventBus.publish, one step per suspension point
\* ------------------------------------------------------------------------

\* a NcatBotEvent as the dispatcher constructs it
NewEvent(type) ==
    [type |-> type, results |-> <<>>, exceptions |-> <<>>, stopped |-> FALSE]

\* NcatBotEvent.add_exception(e)
add_exception(ev, e) == [ev EXCEPT !.exceptions = Append(@, e)]

\* HandlerTimeoutError(meta_data, handler, time)
HandlerTimeoutError(meta_data, handler, time) ==
    [type |-> "HandlerTimeoutError", meta_data |-> meta_data,
     handler |-> handler, time |-> time]

\* a publish that drops the return value, to show what the returned list
\* owes to the append
WithoutResult(ev, result) == ev

\* event._results.append(result)
WithResult(ev, result) == [ev EXCEPT !.results = Append(@, result)]

\* The for loop of publish after the body has run for handlers[idx], the
\* event now being ev: the next iteration breaks on the stop flag, awaits
\* the next handler, or the loop is exhausted and publish returns a copy of
\* the results.
LoopNext(ev) ==
    /\ event' = ev
    /\ IF idx < Len(handlers) /\ ~ev.stopped
       THEN /\ pc' = "await"
            /\ idx' = idx + 1
            /\ UNCHANGED <<outcome, returned, threads>>
       ELSE /\ pc' = "done"
            /\ idx' = idx
            /\ outcome' = "returned"
            /\ returned' = ev.results
            /\ threads' = {}

\* no except clause of publish matches: the error leaves publish
Escapes(ev) ==
    /\ event' = ev
    /\ pc' = "done"
    /\ outcome' = "raised"
    /\ threads' = {}
    /\ UNCHANGED <<idx, returned>>

\* a publish without the except Exception clause, to show what the caller
\* owes to it
NotCaught(ev, e) == Escapes(ev)

\* a publish that records the error and ends the dispatch there, to show
\* what the later handlers owe to the loop going on
CaughtAborts(ev, e) ==
    /\ event' = add_exception(ev, e)
    /\ pc' = "done"
    /\ outcome' = "returned"
    /\ returned' = ev.results
    /\ threads' = {}
    /\ UNCHANGED idx

\* except Exception as e: event.add_exception(e), and the loop goes on
Caught(ev, e) == LoopNext(add_exception(ev, e))

\* publish(event) up to its first suspension
PublishCall(type) ==
    /\ pc \in {"idle", "done"}
    /\ event' = NewEvent(type)
    /\ handlers' = _collect_handlers(type)
    /\ log' = <<>>
    /\ stopper' = {}
    /\ removedBefore' = removed
    /\ IF handlers' # <<>>
       THEN /\ pc' = "await"
            /\ idx' = 1
            /\ outcome' = "none"
            /\ returned' = <<>>
       ELSE /\ pc' = "done"
            /\ idx' = 0
            /\ outcome' = "returned"
            /\ returned' = <<>>
    /\ threads' = {}
    /\ UNCHANGED <<exact, regex, handler_meta, nextHid, removed, nUnsub>>

PublishStart(type) ==
    /\ PublishCall(type)
    /\ UNCHANGED outsideBus

\* the body of the try: the awaited handler returns a value (here its
\* subscription id), having set the stop flag or not
HandlerReturns(stop) ==
    /\ pc = "await"
    /\ LET h  == handlers[idx]
           ev == WithResult([event EXCEPT !.stopped = @ \/ stop], h.hid)
       IN /\ LoopNext(ev)
          /\ log' = Append(log, [sub |-> h, did |-> "return"])
    /\ stopper' = IF stop THEN stopper \cup {idx} ELSE stopper
    /\ UNCHANGED <<exact, regex, handler_meta, nextHid, handlers, removed,
                   removedBefore, nUnsub>>
    /\ UNCHANGED outsideBus

\* the except clauses of publish, for an error of class cls raised by the
\* awaited _run_handler (which re-raises what the handler raised)
HandlerRaises(cls, stop) ==
    /\ pc = "await"
    /\ LET h   == handlers[idx]
           ev0 == [event EXCEPT !.stopped = @ \/ stop]
       IN /\ log' = Append(log, [sub |-> h, did |-> cls])
          /\ IF cls = "Exception"
             THEN Caught(ev0, [type |-> cls, raised_by |-> h.hid])
             ELSE Escapes(ev0)
    /\ stopper' = IF stop THEN stopper \cup {idx} ELSE stopper
    /\ UNCHANGED <<exact, regex, handler_meta, nextHid, handlers, removed,
                   removedBefore, nUnsub>>
    /\ UNCHANGED outsideBus

\* asyncio.wait_for runs out of time (the handler having set the stop flag
\* by then or not): it cancels the awaited _run_handler and raises
\* asyncio.TimeoutError.  A coroutine handler ends with the
\* cancellation; the worker thread of a sync handler cannot be cancelled
\* and keeps running the handler.
HandlerTimesOut(stop) ==
    /\ pc = "await"
    /\ LET h   == handlers[idx]
           meta_data == IF h.hid \in DOMAIN handler_meta
                        THEN handler_meta[h.hid] ELSE UnknownMeta
           ev  == add_exception([event EXCEPT !.stopped = @ \/ stop],
                      HandlerTimeoutError(meta_data, h.handler.name, h.timeout))
           left == IF h.handler.sync THEN threads \cup {idx} ELSE threads
       IN /\ log' = Append(log, [sub |-> h, did |-> "timeout"])
          /\ event' = ev
          /\ IF idx < Len(handlers) /\ ~ev.stopped
             THEN /\ pc' = "await"
                  /\ idx' = idx + 1
                  /\ threads' = left
                  /\ UNCHANGED <<outcome, returned>>
             ELSE /\ pc' = "done"
                  /\ idx' = idx
                  /\ outcome' = "returned"
                  /\ returned' = ev.results
                  /\ threads' = {}
    /\ stopper' = IF stop THEN stopper \cup {idx} ELSE stopper
    /\ UNCHANGED <<exact, regex, handler_meta, nextHid, handlers, removed,
                   removedBefore, nUnsub>>
    /\ UNCHANGED outsideBus

\* a sync handler whose await timed out comes to its end on its worker
\* thread, having set the stop flag of the event or not
ThreadEnds(i, stop) ==
    /\ pc = "await"
    /\ i \in threads
    /\ threads' = threads \ {i}
    /\ event' = [event EXCEPT !.stopped = @ \/ stop]
    /\ stopper' = IF stop THEN stopper \cup {i} ELSE stopper
    /\ UNCHANGED <<exact, regex, handler_meta, nextHid, pc, handlers, idx, outcome,
                   returned, removed, removedBefore, nUnsub, log>>
    /\ UNCHANGED outsideBus

\* ------------------------------------------------------------------------
\* PluginConfigService
\* ------------------------------------------------------------------------

CfgPlugins == {"p"}

CfgNames == {"k", "m"}

CfgValues == {1, 2}

\* Python values: the ints of CfgValues, and the list [v] of one int v,
\* held as ListOf(v)
ListOf(v) == 0 - v

IsList(value) == value < 0

\* the defaults plugins declare, and the types they declare them with
CfgDefaults == {1, ListOf(1)}

ValueTypes == {"int", "list"}

\* the values callers pass to set / set_atomic
SetValues == {2, ListOf(2)}

\* A file is missing (NoFile) or holds a document; a document is empty
\* (zero bytes, yaml.safe_load gives None) or holds a plugin_config section.
NoFile == <<>>

EmptyDoc == <<>>

DocOf(section) == <<section>>

FileOf(doc) == <<doc>>

\* get(plugin_name, name): None when nothing is stored
get(plugin_name, name) ==
    IF plugin_name \in DOMAIN configs /\ name \in DOMAIN configs[plugin_name]
    THEN Some(configs[plugin_name][name])
    ELSE None

\* self._configs after set(plugin_name, name, value), no ConfigItem declared
ConfigsSet(plugin_name, name, value) ==
    LET old == IF plugin_name \in DOMAIN configs THEN configs[plugin_name] ELSE <<>>
        new == [n \in DOMAIN old \cup {name} |-> IF n = name THEN value ELSE old[n]]
    IN [q \in DOMAIN configs \cup {plugin_name} |->
          IF q = plugin_name THEN new ELSE configs[q]]

\* Where the descriptors of the suspended save tasks point after the file
\* at the .tmp path has been renamed over CONFIG_PATH: a descriptor onto
\* the renamed file now writes into the config file, one onto the replaced
\* config file writes into a file no path names.
AfterReplace(ts) ==
    [i \in DOMAIN ts |->
        [ts[i] EXCEPT !.fd = CASE @ = "tmp" -> "cfg"
                              [] @ = "cfg" -> "unlinked"
                              [] OTHER -> @]]

\* _save_to_file_sync(), ok: whether reading and writing the files succeed
_save_to_file_sync(cfgs, ok) ==
    IF ok
    THEN \* the .tmp file is written and renamed over CONFIG_PATH
         /\ cfgFile' = FileOf(DocOf(cfgs))
         /\ tmpFile' = NoFile
         /\ dirty' = FALSE
         /\ tasks' = AfterReplace(tasks)
    ELSE \* except Exception: logged
         /\ dirty' = TRUE
         /\ UNCHANGED <<cfgFile, tmpFile, tasks>>

\* self._configs once self._configs[plugin_name] exists
WithPlugin(plugin_name) ==
    IF plugin_name \in DOMAIN configs THEN configs
    ELSE [q \in DOMAIN configs \cup {plugin_name} |->
            IF q = plugin_name THEN <<>> ELSE configs[q]]

\* ConfigItem(...): description, metadata and on_change hold no state of the
\* service and are left out
ConfigItem(name, default_value, value_type, plugin_name) ==
    [name |-> name, default_value |-> default_value, value_type |-> value_type,
     plugin_name |-> plugin_name]

\* isinstance(value, value_type)
isinstance(value, value_type) ==
    IF value_type = "list" THEN IsList(value) ELSE ~IsList(value)

\* ConfigItem.parse_value(value): Some(parsed), or None when it raises
\* (ValueError for a list item given an int, TypeError from int([v]))
parse_value(config_item, value) ==
    IF isinstance(value, config_item.value_type) THEN Some(value) ELSE None

\* register_config never raises for a name it has on record
NeverDeclared(plugin_name, name) == FALSE

\* name in self._config_items[plugin_name]
AlreadyDeclared(plugin_name, name) ==
    /\ plugin_name \in DOMAIN config_items
    /\ name \in DOMAIN config_items[plugin_name]

\* get_registered_configs(plugin_name), as the set of declared names
get_registered_configs(plugin_name) ==
    IF plugin_name \in DOMAIN config_items
    THEN DOMAIN config_items[plugin_name]
    ELSE {}

\* get_plugin_config(plugin_name): a copy of the plugin's value map
get_plugin_config(plugin_name) ==
    IF plugin_name \in DOMAIN configs THEN configs[plugin_name] ELSE <<>>

\* what set() stores for value: Some(v), or None when parse_value raises
Coerced(plugin_name, name, value) ==
    IF AlreadyDeclared(plugin_name, name)
    THEN parse_value(config_items[plugin_name][name], value)
    ELSE Some(value)

\* the history of acknowledged writes once (plugin_name, name) is written
\* by something that is not an acknowledged set_atomic
Unacked(plugin_name, name) ==
    [key \in DOMAIN acked \ {<<plugin_name, name>>} |-> acked[key]]

\* set(plugin_name, name, value)
Set(plugin_name, name, value) ==
    /\ nSets < MaxSets
    /\ nSets' = nSets + 1
    /\ LET parsed == Coerced(plugin_name, name, value)
       IN IF parsed = None
          THEN \* parse_value raises, after the plugin's value map was created
               /\ configs' = WithPlugin(plugin_name)
               /\ UNCHANGED <<dirty, acked, shared>>
          ELSE /\ configs' = ConfigsSet(plugin_name, name, parsed[1])
               /\ dirty' = TRUE
               /\ acked' = Unacked(plugin_name, name)
               /\ shared' = shared \ {<<plugin_name, name>>}
    /\ UNCHANGED <<config_items, tasks, cfgFile, tmpFile, regRaised, unloads>>
    /\ UNCHANGED outsideCfg

\* set_atomic(plugin_name, name, value): set(), then _atomic_save() with
\* the dirty flag just set.  loop: whether the caller runs on an event loop.
set_atomic(plugin_name, name, value, loop, ok) ==
    /\ nSets < MaxSets
    /\ nSets' = nSets + 1
    /\ LET parsed == Coerced(plugin_name, name, value)
       IN IF parsed = None
          THEN \* set() raises: _atomic_save() is not reached
               /\ configs' = WithPlugin(plugin_name)
               /\ UNCHANGED <<dirty, acked, shared, tasks, cfgFile, tmpFile>>
          ELSE /\ configs' = ConfigsSet(plugin_name, name, parsed[1])
               /\ shared' = shared \ {<<plugin_name, name>>}
               /\ IF loop
                  THEN \* loop.create_task(self._save_to_file()): the task has
                       \* not run yet
                       /\ Len(tasks) < MaxTasks
                       /\ tasks' = Append(tasks, [pc |-> "start", fd |-> "none",
                                                  dump |-> <<>>])
                       /\ dirty' = TRUE
                       /\ UNCHANGED <<cfgFile, tmpFile>>
                  ELSE \* RuntimeError from get_running_loop: save synchronously
                       _save_to_file_sync(configs', ok)
               /\ acked' = IF loop \/ ok
                           THEN [key \in DOMAIN acked \cup {<<plugin_name, name>>} |->
                                   IF key = <<plugin_name, name>> THEN parsed[1]
                                   ELSE acked[key]]
                           ELSE Unacked(plugin_name, name)
    /\ UNCHANGED <<config_items, regRaised, unloads>>
    /\ UNCHANGED outsideCfg

\* self._config_items after self._config_items[plugin_name][name] = item
ItemsSet(plugin_name, name, item) ==
    LET old == IF plugin_name \in DOMAIN config_items
               THEN config_items[plugin_name] ELSE <<>>
        new == [n \in DOMAIN old \cup {name} |-> IF n = name THEN item ELSE old[n]]
    IN [q \in DOMAIN config_items \cup {plugin_name} |->
          IF q = plugin_name THEN new ELSE config_items[q]]

\* register_config seeds the default whatever is stored
AlwaysSeed(plugin_name, name) == TRUE

\* name not in self._configs[plugin_name]
NeedsSeed(plugin_name, name) == get(plugin_name, name) = None

\* register_config stores the caller's default object itself
SeedNoCopy(default_value, value_type) ==
    IF isinstance(default_value, value_type) \/ value_type = "list"
    THEN Some([value |-> default_value, same_object |-> TRUE])
    ELSE None

\* The value register_config stores for a default, and whether it is the
\* caller's object: copy.deepcopy(default_value) for a list item, the
\* default itself when it is an instance of value_type, value_type(default)
\* otherwise; None when that conversion raises (int([v]) is a TypeError).
SeedValue(default_value, value_type) ==
    IF value_type = "list"
    THEN Some([value |-> default_value, same_object |-> FALSE])
    ELSE IF isinstance(default_value, value_type)
    THEN Some([value |-> default_value, same_object |-> TRUE])
    ELSE None

\* register_config(plugin_name, name, default_value, value_type=value_type),
\* as it acts on the config store
RegisterConfigCall(plugin_name, name, default_value, value_type) ==
    /\ IF AlreadyDeclared(plugin_name, name)
       THEN \* raise ValueError
            /\ regRaised' = Some("ValueError")
            /\ UNCHANGED <<configs, config_items, dirty, acked, shared>>
       ELSE /\ config_items' = ItemsSet(plugin_name, name,
                    ConfigItem(name, default_value, value_type, plugin_name))
            /\ IF NeedsSeed(plugin_name, name)
               THEN LET seed == SeedValue(default_value, value_type)
                    IN IF seed = None
                       THEN \* value_type(default_value) raises
                            /\ regRaised' = Some("TypeError")
                            /\ configs' = WithPlugin(plugin_name)
                            /\ shared' = shared \ {<<plugin_name, name>>}
                            /\ UNCHANGED <<dirty, acked>>
                       ELSE /\ regRaised' = None
                            /\ configs' = ConfigsSet(plugin_name, name, seed[1].value)
                            /\ dirty' = TRUE
                            /\ acked' = Unacked(plugin_name, name)
                            /\ shared' = IF seed[1].same_object
                                         THEN shared \cup {<<plugin_name, name>>}
                                         ELSE shared \ {<<plugin_name, name>>}
               ELSE \* the stored value is not this call's default
                    /\ regRaised' = None
                    /\ shared' = shared \ {<<plugin_name, name>>}
                    /\ UNCHANGED <<configs, dirty, acked>>
    /\ UNCHANGED <<tasks, cfgFile, tmpFile, nSets>>

\* register_config(plugin_name, name, default_value, value_type=value_type)
register_config(plugin_name, name, default_value, value_type) ==
    /\ RegisterConfigCall(plugin_name, name, default_value, value_type)
    /\ UNCHANGED unloads
    /\ UNCHANGED outsideCfg

\* The plugin that declared name with a list default changes that list in
\* place: the ConfigItem holds the list itself, and so does every stored
\* value that is the same object.
CallerMutatesDefault(plugin_name, name, value) ==
    /\ AlreadyDeclared(plugin_name, name)
    /\ IsList(config_items[plugin_name][name].default_value)
    /\ IsList(value)
    /\ config_items[plugin_name][name].default_value # value
    /\ config_items' = [config_items EXCEPT ![plugin_name][name].default_value = value]
    /\ configs' = IF <<plugin_name, name>> \in shared
                  THEN ConfigsSet(plugin_name, name, value)
                  ELSE configs
    /\ UNCHANGED <<dirty, tasks, cfgFile, tmpFile, acked, nSets, shared, regRaised, unloads>>
    /\ UNCHANGED outsideCfg

\* self._configs / self._config_items after del d[plugin_name]
Without(d, plugin_name) == [q \in DOMAIN d \ {plugin_name} |-> d[q]]

\* delete_plugin_config(plugin_name)
delete_plugin_config(plugin_name) ==
    /\ plugin_name \in DOMAIN configs \/ plugin_name \in DOMAIN config_items
    /\ configs' = Without(configs, plugin_name)
    /\ dirty' = (dirty \/ plugin_name \in DOMAIN configs)
    /\ config_items' = Without(config_items, plugin_name)
    /\ acked' = [key \in {k \in DOMAIN acked : k[1] # plugin_name} |-> acked[key]]
    /\ shared' = {k \in shared : k[1] # plugin_name}
    /\ UNCHANGED <<tasks, cfgFile, tmpFile, nSets, regRaised, unloads>>
    /\ UNCHANGED outsideCfg

\* The config step of the loader's unload of a plugin, as it acts on the
\* config store: the plugin's declarations are cleared, its values stay.
ClearDeclarations(plugin_name) ==
    /\ config_items' = Without(config_items, plugin_name)
    /\ unloads' = unloads \cup {plugin_name}
    /\ shared' = {k \in shared : k[1] # plugin_name}
    /\ UNCHANGED <<configs, dirty, tasks, cfgFile, tmpFile, acked, nSets, regRaised>>

\* the unload of a plugin that has declared configs, seen from the config
\* store
UnloadClearsDeclarations(plugin_name) ==
    /\ plugin_name \in DOMAIN config_items
    /\ ClearDeclarations(plugin_name)
    /\ UNCHANGED outsideCfg

\* the save task at position i is over
RemoveAt(seq, i) == SubSeq(seq, 1, i - 1) \o SubSeq(seq, i + 1, Len(seq))

\* _save_to_file(), first step: the dirty check, then the existing document
\* is read (suspends)
SaveBegin(i) ==
    /\ i \in DOMAIN tasks
    /\ tasks[i].pc = "start"
    /\ tasks' = IF dirty THEN [tasks EXCEPT ![i].pc = "open"] ELSE RemoveAt(tasks, i)
    /\ UNCHANGED <<configs, config_items, dirty, cfgFile, tmpFile, acked, nSets,
                   shared, regRaised, unloads>>
    /\ UNCHANGED outsideCfg

\* aiofiles.open(tmp_path, "w") has completed (the file is created or
\* truncated); yaml.dump takes the current self._configs; f.write suspends
SaveOpenTmp(i) ==
    /\ i \in DOMAIN tasks
    /\ tasks[i].pc = "open"
    /\ tmpFile' = FileOf(EmptyDoc)
    /\ tasks' = [tasks EXCEPT ![i] = [pc |-> "write", fd |-> "tmp", dump |-> DocOf(configs)]]
    /\ UNCHANGED <<configs, config_items, dirty, cfgFile, acked, nSets, shared,
                   regRaised, unloads>>
    /\ UNCHANGED outsideCfg

\* f.write and the closing of the file have completed: the dumped text is
\* in the file the descriptor points to; ok: whether they succeeded
SaveWrite(i, ok) ==
    /\ i \in DOMAIN tasks
    /\ tasks[i].pc = "write"
    /\ IF ok
       THEN /\ tasks' = [tasks EXCEPT ![i].pc = "replace"]
            /\ cfgFile' = IF tasks[i].fd = "cfg" THEN FileOf(tasks[i].dump) ELSE cfgFile
            /\ tmpFile' = IF tasks[i].fd = "tmp" THEN FileOf(tasks[i].dump) ELSE tmpFile
       ELSE \* except Exception: logged, the task ends
            /\ tasks' = RemoveAt(tasks, i)
            /\ UNCHANGED <<cfgFile, tmpFile>>
    /\ UNCHANGED <<configs, config_items, dirty, acked, nSets, shared, regRaised, unloads>>
    /\ UNCHANGED outsideCfg

\* tmp_path.replace(self._config_path); self._dirty = False
SaveReplace(i) ==
    /\ i \in DOMAIN tasks
    /\ tasks[i].pc = "replace"
    /\ IF tmpFile # NoFile
       THEN /\ cfgFile' = tmpFile
            /\ tmpFile' = NoFile
            /\ dirty' = FALSE
            /\ tasks' = RemoveAt(AfterReplace(tasks), i)
       ELSE \* FileNotFoundError, caught by except Exception: logged
            /\ tasks' = RemoveAt(tasks, i)
            /\ UNCHANGED <<cfgFile, tmpFile, dirty>>
    /\ UNCHANGED <<configs, config_items, acked, nSets, shared, regRaised, unloads>>
    /\ UNCHANGED outsideCfg

\* _load_from_file(), on the freshly constructed service
_load_from_file ==
    IF cfgFile = NoFile THEN <<>>
    ELSE IF cfgFile[1] = EmptyDoc THEN <<>>
    ELSE cfgFile[1][1]

\* The process dies at any point and the bot is started again: a new
\* service is constructed and on_load() loads the file.  The files stay as
\* they are; the tasks of the old event loop are gone.
CrashRestart ==
    /\ configs' = _load_from_file
    /\ config_items' = <<>>
    /\ dirty' = FALSE
    /\ tasks' = <<>>
    /\ shared' = {}
    /\ regRaised' = None
    /\ unloads' = {}
    /\ UNCHANGED <<cfgFile, tmpFile, acked, nSets>>
    /\ UNCHANGED outsideCfg

\* ------------------------------------------------------------------------
\* Plugin loader: load, unload and reload of one plugin
\* ------------------------------------------------------------------------

\* The plugin that is loaded and reloaded: the command and the alias its
\* module registers, and the subscribe() and register_config() calls its
\* on_load makes.
ReloadPlugin ==
    [name |-> "p",
     commands |-> <<"reload_test_cmd">>,
     aliases |-> <<"hrt">>,
     subscribes |-> << [event_type |-> T_a,    handler |-> hA, priority |-> 100],
                       [event_type |-> T_re_a, handler |-> hA, priority |-> 50] >>,
     configs |-> << [name |-> "k", default_value |-> 1, value_type |-> "int"] >>]

\* the registrations of names for a plugin, appended to a registry
RegisteredFor(names, plugin_name) ==
    [i \in DOMAIN names |-> [name |-> names[i], plugin |-> plugin_name]]

\* revoke_plugin(plugin_name) on a registry
revoke_plugin(registry, plugin_name) ==
    SelectSeq(registry, LAMBDA r : r.plugin # plugin_name)

\* load, steps 2 and 3: the module is imported, which registers its
\* commands and aliases, and the plugin is instantiated
LoadStart ==
    /\ ldr.state = "unloaded"
    /\ nLoads < MaxLoads
    /\ nLoads' = nLoads + 1
    /\ commands' = commands \o RegisteredFor(ReloadPlugin.commands, ReloadPlugin.name)
    /\ aliases' = aliases \o RegisteredFor(ReloadPlugin.aliases, ReloadPlugin.name)
    /\ plugins' = [q \in DOMAIN plugins \cup {ReloadPlugin.name} |->
                     IF q = ReloadPlugin.name THEN {} ELSE plugins[q]]
    /\ ldr' = [state |-> "on_load", step |-> 1]
    /\ UNCHANGED firstLoad
    /\ UNCHANGED <<busVars, cfgVars, svcVars, gwVars, rbacVars, restVars>>

\* load, step 4: the next subscribe() call of on_load; the loader retains
\* the id it returns
LoadSubscribes ==
    /\ ldr.state = "on_load"
    /\ ldr.step <= Len(ReloadPlugin.subscribes)
    /\ LET c == ReloadPlugin.subscribes[ldr.step]
       IN SubscribeCall(c.event_type, c.handler, c.priority, c.handler.timeout,
                        c.handler.plugin)
    /\ plugins' = [plugins EXCEPT ![ReloadPlugin.name] = @ \cup {nextHid}]
    /\ ldr' = [ldr EXCEPT !.step = @ + 1]
    /\ UNCHANGED <<commands, aliases, firstLoad, nLoads>>
    /\ UNCHANGED <<cfgVars, svcVars, gwVars, rbacVars, restVars>>

\* load, step 4: the next register_config() call of on_load; when it
\* raises, the load has failed
LoadRegistersConfig ==
    /\ ldr.state = "on_load"
    /\ ldr.step > Len(ReloadPlugin.subscribes)
    /\ ldr.step <= Len(ReloadPlugin.subscribes) + Len(ReloadPlugin.configs)
    /\ LET c == ReloadPlugin.configs[ldr.step - Len(ReloadPlugin.subscribes)]
       IN RegisterConfigCall(ReloadPlugin.name, c.name, c.default_value, c.value_type)
    /\ ldr' = IF regRaised' = None
              THEN [ldr EXCEPT !.step = @ + 1]
              ELSE [state |-> "failed", step |-> 0]
    /\ UNCHANGED unloads
    /\ UNCHANGED <<plugins, commands, aliases, firstLoad, nLoads>>
    /\ UNCHANGED <<busVars, svcVars, gwVars, rbacVars, restVars>>

\* the subscriptions in the tables whose handler was subscribed with its
\* plugin as owner: where each one is subscribed, and its id
OwnedSubscriptions ==
    { [event_type |-> <<>>, pattern |-> regex[i].pattern,
       handler |-> regex[i].handler.name, hid |-> regex[i].hid] :
         i \in { j \in 1..Len(regex) : regex[j].handler.plugin # None } }
    \cup UNION { { [event_type |-> t, pattern |-> None,
                   handler |-> exact[t][i].handler.name, hid |-> exact[t][i].hid] :
                      i \in { j \in 1..Len(exact[t]) : exact[t][j].handler.plugin # None } } :
                 t \in DOMAIN exact }

\* What is registered for the plugin: its commands and aliases (as often
\* as they are registered), its subscriptions in the bus tables and the
\* owner metadata the bus holds for it, and its declared config names.
Registered ==
    [commands |-> SelectSeq(commands, LAMBDA r : r.plugin = ReloadPlugin.name),
     aliases |-> SelectSeq(aliases, LAMBDA r : r.plugin = ReloadPlugin.name),
     subscribed |-> { [event_type |-> e.event_type, pattern |-> e.pattern,
                       handler |-> e.handler] : e \in OwnedSubscriptions },
     nSubscriptions |-> Cardinality(OwnedSubscriptions),
     nMeta |-> Cardinality({ h \in DOMAIN handler_meta : handler_meta[h] = PluginMeta }),
     configs |-> get_registered_configs(ReloadPlugin.name)]

NothingRegistered ==
    [commands |-> <<>>, aliases |-> <<>>, subscribed |-> {}, nSubscriptions |-> 0,
     nMeta |-> 0, configs |-> {}]

\* load, step 5: on_load has returned and the plugin is loaded
LoadDone ==
    /\ ldr.state = "on_load"
    /\ ldr.step > Len(ReloadPlugin.subscribes) + Len(ReloadPlugin.configs)
    /\ ldr' = [state |-> "loaded", step |-> 0]
    /\ firstLoad' = IF firstLoad = None THEN Some(Registered) ELSE firstLoad
    /\ UNCHANGED <<plugins, commands, aliases, nLoads>>
    /\ UNCHANGED <<busVars, cfgVars, svcVars, gwVars, rbacVars, restVars>>

\* unload, steps 1 and 2: ncatbot.plugin_unload is published, on which the
\* command registry drops what the plugin registered; on_close is called
UnloadStart ==
    /\ ldr.state = "loaded"
    /\ commands' = revoke_plugin(commands, ReloadPlugin.name)
    /\ aliases' = revoke_plugin(aliases, ReloadPlugin.name)
    /\ ldr' = [state |-> "closing", step |-> 0]
    /\ UNCHANGED <<plugins, firstLoad, nLoads>>
    /\ UNCHANGED <<busVars, cfgVars, svcVars, gwVars, rbacVars, restVars>>

\* unload, step 3: one of the handler ids the plugin owns is unsubscribed
UnloadUnsubscribes ==
    /\ ldr.state = "closing"
    /\ \E id \in plugins[ReloadPlugin.name] :
          /\ UnsubscribeCall(id)
          /\ plugins' = [plugins EXCEPT ![ReloadPlugin.name] = @ \ {id}]
    /\ UNCHANGED nUnsub
    /\ UNCHANGED <<ldr, commands, aliases, firstLoad, nLoads>>
    /\ UNCHANGED <<cfgVars, svcVars, gwVars, rbacVars, restVars>>

\* unload, steps 3 and 4: with every id unsubscribed, the config
\* declarations are cleared and the loader forgets the plugin
UnloadDone ==
    /\ ldr.state = "closing"
    /\ plugins[ReloadPlugin.name] = {}
    /\ ClearDeclarations(ReloadPlugin.name)
    /\ plugins' = Without(plugins, ReloadPlugin.name)
    /\ ldr' = [state |-> "unloaded", step |-> 0]
    /\ UNCHANGED <<commands, aliases, firstLoad, nLoads>>
    /\ UNCHANGED <<busVars, svcVars, gwVars, rbacVars, restVars>>

\* the ids the loaded plugins own
OwnedIds == UNION { plugins[q] : q \in DOMAIN plugins }

\* ------------------------------------------------------------------------
\* ServiceManager
\* ------------------------------------------------------------------------

\* the names of the service classes that get registered
SvcNames == {"a", "b", "c"}

\* list(d.keys()) of a dict held as a sequence of entries
NamesOf(entries) == [i \in DOMAIN entries |-> entries[i].name]

\* the names in a sequence of names
Elems(names) == { names[i] : i \in DOMAIN names }

\* has(service_name)
has(service_name) == service_name \in Elems(NamesOf(services))

\* ServiceManager.get(service_name): the instance, or None
ServiceGet(service_name) ==
    IF has(service_name)
    THEN Some(services[CHOOSE i \in DOMAIN services :
                           services[i].name = service_name].inst)
    ELSE None

\* del d[name]
WithoutName(entries, name) == SelectSeq(entries, LAMBDA e : e.name # name)

\* The progress of a call: the instance registry, the instance counter,
\* the services whose _load() and _close() were invoked, in order, and the
\* exception that left the call, if any.
CallStart ==
    [services |-> services, nextInst |-> nextInst, loads |-> <<>>, closes |-> <<>>,
     raised |-> None]

\* load() records the instance before it awaits service._load()
LoadRecordsFirst(st, service_name, failing) ==
    IF service_name \in Elems(NamesOf(st.services)) THEN st
    ELSE IF service_name \notin Elems(service_classes)
    THEN [st EXCEPT !.raised = Some("KeyError")]
    ELSE LET entry == [name |-> service_name, inst |-> st.nextInst]
             loaded == [st EXCEPT !.nextInst = @ + 1,
                                  !.loads = Append(@, entry),
                                  !.services = Append(@, entry)]
         IN IF service_name \in failing
            THEN [loaded EXCEPT !.raised = Some("RuntimeError")]
            ELSE loaded

\* a test that finds no service loaded
InNoServices(st, service_name) == FALSE

\* service_name in self._services
InServices(st, service_name) == service_name \in Elems(NamesOf(st.services))

\* load(service_name); failing: the services whose on_load raises
LoadOne(st, service_name, failing) ==
    IF InServices(st, service_name) THEN st
    ELSE IF service_name \notin Elems(service_classes)
    THEN [st EXCEPT !.raised = Some("KeyError")]
    ELSE LET entry == [name |-> service_name, inst |-> st.nextInst]
             attempted == [st EXCEPT !.nextInst = @ + 1,
                                     !.loads = Append(@, entry)]
         IN IF service_name \in failing
            THEN \* await service._load() raises: nothing is recorded
                 [attempted EXCEPT !.raised = Some("RuntimeError")]
            ELSE [attempted EXCEPT !.services = Append(@, entry)]

\* unload(service_name); failing: the services whose on_close raises
UnloadOne(st, service_name, failing) ==
    IF service_name \notin Elems(NamesOf(st.services)) THEN st
    ELSE LET closing == [st EXCEPT !.closes = Append(@, service_name)]
         IN IF service_name \in failing
            THEN \* await ..._close() raises: the del is not reached
                 [closing EXCEPT !.raised = Some("RuntimeError")]
            ELSE [closing EXCEPT !.services = WithoutName(@, service_name)]

\* for name in names: if name not in self._services: await self.load(name)
RECURSIVE LoadAllFrom(_, _, _)
LoadAllFrom(st, names, failing) ==
    IF names = <<>> \/ st.raised # None THEN st
    ELSE LoadAllFrom(LoadOne(st, Head(names), failing), Tail(names), failing)

\* for name in names: await self.unload(name)
RECURSIVE CloseAllFrom(_, _, _)
CloseAllFrom(st, names, failing) ==
    IF names = <<>> \/ st.raised # None THEN st
    ELSE CloseAllFrom(UnloadOne(st, Head(names), failing), Tail(names), failing)

\* a call op(arg) that ran from CallStart to st has returned or raised
Called(op, arg, failing, st) ==
    /\ nCalls < MaxSvcCalls
    /\ nCalls' = nCalls + 1
    /\ services' = st.services
    /\ nextInst' = st.nextInst
    /\ lastCall' = [op |-> op, arg |-> arg, failing |-> failing, before |-> services,
                    instBefore |-> nextInst, loads |-> st.loads, closes |-> st.closes,
                    raised |-> st.raised]
    /\ failedLoads' = failedLoads \cup
                      { st.loads[i] : i \in { j \in DOMAIN st.loads :
                            st.loads[j] \notin Elems(st.services) } }
    /\ UNCHANGED <<busVars, cfgVars, ldrVars, gwVars, rbacVars, restVars>>

\* register(service_class): a temporary instance gives the name; a name
\* registered again keeps its place in the dict
register(name) ==
    /\ service_classes' = IF name \in Elems(service_classes) THEN service_classes
                          ELSE Append(service_classes, name)
    /\ Called("register", name, {}, [CallStart EXCEPT !.nextInst = @ + 1])

\* load(service_name)
load(service_name, failing) ==
    /\ Called("load", service_name, failing, LoadOne(CallStart, service_name, failing))
    /\ UNCHANGED service_classes

\* unload(service_name)
unload(service_name, failing) ==
    /\ Called("unload", service_name, failing,
              UnloadOne(CallStart, service_name, failing))
    /\ UNCHANGED service_classes

\* load_all()
load_all(failing) ==
    /\ Called("load_all", "", failing, LoadAllFrom(CallStart, service_classes, failing))
    /\ UNCHANGED service_classes

\* close_all()
close_all(failing) ==
    /\ Called("close_all", "", failing,
              CloseAllFrom(CallStart, NamesOf(services), failing))
    /\ UNCHANGED service_classes

\* ------------------------------------------------------------------------
\* ServiceManager: load calls that overlap on the event loop
\* ------------------------------------------------------------------------

Loaders == 1..MaxLoaders

IdleLoader == [pc |-> "idle", name |-> "", inst |-> 0, rest |-> <<>>]

\* self._services[service_name] = service
PutService(entries, service_name, inst) ==
    IF service_name \in Elems(NamesOf(entries))
    THEN [i \in DOMAIN entries |->
            IF entries[i].name = service_name
            THEN [name |-> service_name, inst |-> inst] ELSE entries[i]]
    ELSE Append(entries, [name |-> service_name, inst |-> inst])

\* the names of a list from the first that is not in self._services
RECURSIVE FromFirstUnloaded(_, _)
FromFirstUnloaded(names, entries) ==
    IF names = <<>> THEN <<>>
    ELSE IF Head(names) \in Elems(NamesOf(entries))
    THEN FromFirstUnloaded(Tail(names), entries)
    ELSE names

RaceFrame == UNCHANGED <<busVars, cfgVars, ldrVars, gwVars, rbacVars, pathVars, depVars, fwVars, lcVars, impVars, runVars, scanVars, service_classes, lastCall, failedLoads, nCalls>>

\* A coroutine runs load (for each name of names that load_all finds not
\* loaded) up to the next await of service._load(): a loaded name is
\* returned as it is, an unregistered one raises KeyError, else the class
\* is instantiated and _load() of the instance awaited.
RunsToAwait(c, names, entries) ==
    LET todo == FromFirstUnloaded(names, entries)
    IN IF todo = <<>>
       THEN /\ loaders' = [loaders EXCEPT ![c] = [IdleLoader EXCEPT !.pc = "returned"]]
            /\ UNCHANGED <<nextInst, awaited>>
       ELSE IF Head(todo) \notin Elems(service_classes)
       THEN /\ loaders' = [loaders EXCEPT ![c] = [IdleLoader EXCEPT !.pc = "raised"]]
            /\ UNCHANGED <<nextInst, awaited>>
       ELSE /\ loaders' = [loaders EXCEPT ![c] =
                             [pc |-> "await", name |-> Head(todo),
                              inst |-> nextInst, rest |-> Tail(todo)]]
            /\ nextInst' = nextInst + 1
            /\ awaited' = awaited \cup {[name |-> Head(todo), inst |-> nextInst]}

\* a coroutine calls load(service_name) or, all being TRUE, load_all()
load_begins(c, service_name, all) ==
    /\ loaders[c].pc = "idle"
    /\ RunsToAwait(c, IF all THEN service_classes ELSE <<service_name>>, services)
    /\ UNCHANGED services
    /\ RaceFrame

\* await service._load() is over: when it raised, the call raises; else
\* the instance is stored under the name and the coroutine goes on
load_resumes(c, ok) ==
    /\ loaders[c].pc = "await"
    /\ IF ok
       THEN /\ services' = PutService(services, loaders[c].name, loaders[c].inst)
            /\ RunsToAwait(c, loaders[c].rest, services')
       ELSE /\ loaders' = [loaders EXCEPT ![c] = [IdleLoader EXCEPT !.pc = "raised"]]
            /\ UNCHANGED <<services, nextInst, awaited>>
    /\ RaceFrame

\* ------------------------------------------------------------------------
\* EventParser and the event classes
\* ------------------------------------------------------------------------

\* str(v) of a non-negative int: its decimal digits
Digits == <<"0", "1", "2", "3", "4", "5", "6", "7", "8", "9">>

RECURSIVE Str(_)
Str(v) ==
    IF v < 10 THEN <<Digits[v + 1]>>
    ELSE Str(v \div 10) \o <<Digits[(v % 10) + 1]>>

\* the identifier fields of the event classes
IdFields == {"self_id", "user_id", "group_id", "message_id", "operator_id", "target_id"}

\* integer identifiers a payload carries: 0 and one of two digits
WireIds == {0, MaxWireId}

\* An event class: the registry key it is registered under, and its
\* identifier fields by the way they are validated:
\*   strict   required, with a "before" validator str(v)
\*   lenient  Optional, with the "before" validator str(v) if v else None
\*   bare     Optional[str] with no "before" validator (an int is no str)
EventClass(cls, post_type, key, strict, lenient, bare) ==
    [cls |-> cls, post_type |-> post_type, key |-> key,
     strict |-> {"self_id"} \cup strict, lenient |-> lenient, bare |-> bare]

\* NoticeEvent: group_id and user_id, validated by _ids
NoticeClass(cls, key, strict) ==
    EventClass(cls, "notice", key, strict, {"group_id", "user_id"}, {})

\* register_builtin_events().  GroupRecallNoticeEvent names its own
\* validator _ids, which replaces the _ids of NoticeEvent it inherits.
_registry ==
    { EventClass("PrivateMessageEvent", "message", "private",
                 {"message_id", "user_id"}, {}, {}),
      EventClass("GroupMessageEvent", "message", "group",
                 {"message_id", "user_id", "group_id"}, {}, {}),
      EventClass("FriendRequestEvent", "request", "friend", {"user_id"}, {}, {}),
      EventClass("GroupRequestEvent", "request", "group", {"user_id", "group_id"}, {}, {}),
      EventClass("LifecycleMetaEvent", "meta_event", "lifecycle", {}, {}, {}),
      EventClass("HeartbeatMetaEvent", "meta_event", "heartbeat", {}, {}, {}),
      NoticeClass("GroupUploadNoticeEvent", "group_upload", {}),
      NoticeClass("GroupAdminNoticeEvent", "group_admin", {}),
      NoticeClass("GroupDecreaseNoticeEvent", "group_decrease", {"operator_id"}),
      NoticeClass("GroupIncreaseNoticeEvent", "group_increase", {"operator_id"}),
      NoticeClass("GroupBanNoticeEvent", "group_ban", {"operator_id"}),
      NoticeClass("FriendAddNoticeEvent", "friend_add", {}),
      EventClass("GroupRecallNoticeEvent", "notice", "group_recall",
                 {"operator_id", "message_id"}, {}, {"group_id", "user_id"}),
      NoticeClass("FriendRecallNoticeEvent", "friend_recall", {"message_id"}),
      NoticeClass("PokeNotifyEvent", "poke", {"target_id"}),
      NoticeClass("LuckyKingNotifyEvent", "lucky_king", {"target_id"}),
      NoticeClass("HonorNotifyEvent", "honor", {}) }

\* a lookup that falls back to a generic event class
RegistryGetGeneric(post_type, sec_key) ==
    IF \E c \in _registry : c.post_type = post_type /\ c.key = sec_key
    THEN Some(CHOOSE c \in _registry : c.post_type = post_type /\ c.key = sec_key)
    ELSE Some(EventClass("GenericEvent", post_type, sec_key, {}, {}, {}))

\* cls._registry.get((post_type, sec_key))
RegistryGet(post_type, sec_key) ==
    IF \E c \in _registry : c.post_type = post_type /\ c.key = sec_key
    THEN Some(CHOOSE c \in _registry : c.post_type = post_type /\ c.key = sec_key)
    ELSE None

\* A payload: a missing key is "" (data.get(k) or "" and not data.get(k)
\* treat both alike); ids gives each identifier field its integer, or None
\* for a missing key.
Payload(post_type, message_type, request_type, meta_event_type, notice_type, sub_type, ids) ==
    [post_type |-> post_type, message_type |-> message_type,
     request_type |-> request_type, meta_event_type |-> meta_event_type,
     notice_type |-> notice_type, sub_type |-> sub_type, ids |-> ids]

\* _get_secondary_key(data)
_get_secondary_key(data) ==
    IF data.post_type = "message" THEN data.message_type
    ELSE IF data.post_type = "request" THEN data.request_type
    ELSE IF data.post_type = "meta_event" THEN data.meta_event_type
    ELSE IF data.post_type = "notice"
    THEN IF data.notice_type = "notify" THEN data.sub_type ELSE data.notice_type
    ELSE "default"

\* force_str, _force_ids, _gid, _oid, _mid, _tid, _uid: str(v)
force_str(v) == Str(v)

\* NoticeEvent._ids: str(v) if v else None
_ids(v) == IF v # 0 THEN Some(Str(v)) ELSE None

\* what parse returns or raises
Returned(ev) == [raised |-> None, event |-> Some(ev)]

Raised(e) == [raised |-> Some(e), event |-> None]

\* event_cls(**data): a required field that is missing, or an int given to
\* a str field that has no "before" validator, is a ValidationError
Instantiate(event_cls, data) ==
    IF \/ \E f \in event_cls.strict : data.ids[f] = None
       \/ \E f \in event_cls.bare : data.ids[f] # None
    THEN Raised("ValueError")
    ELSE Returned([cls |-> event_cls.cls,
                   ids |-> [f \in IdFields |->
                              IF data.ids[f] = None THEN None
                              ELSE IF f \in event_cls.strict
                              THEN Some(force_str(data.ids[f][1]))
                              ELSE IF f \in event_cls.lenient
                              THEN _ids(data.ids[f][1])
                              ELSE None]])

\* EventParser.parse(data, api_instance)
parse(data) ==
    IF data.post_type = "" THEN Raised("ValueError")
    ELSE LET sec_key   == _get_secondary_key(data)
             event_cls == RegistryGet(data.post_type, sec_key)
         IN IF event_cls = None THEN Raised("ValueError")
            ELSE Instantiate(event_cls[1], data)

\* the frames without identifiers: one for each registered event class ...
KnownKinds ==
    { Payload("message", "private", "", "", "", "friend", <<>>),
      Payload("message", "group", "", "", "", "normal", <<>>),
      Payload("request", "", "friend", "", "", "", <<>>),
      Payload("request", "", "group", "", "", "add", <<>>),
      Payload("meta_event", "", "", "lifecycle", "", "enable", <<>>),
      Payload("meta_event", "", "", "heartbeat", "", "", <<>>),
      Payload("notice", "", "", "", "notify", "poke", <<>>),
      Payload("notice", "", "", "", "notify", "lucky_king", <<>>),
      Payload("notice", "", "", "", "notify", "honor", <<>>) }
    \cup { Payload("notice", "", "", "", notice_type, "", <<>>) :
             notice_type \in {"group_upload", "group_admin", "group_decrease",
                              "group_increase", "group_ban", "friend_add",
                              "group_recall", "friend_recall"} }

\* ... and frames no event class is registered for, or without post_type
UnknownKinds ==
    { Payload("unknown_type", "", "", "", "", "", <<>>),
      Payload("message", "channel", "", "", "", "", <<>>),
      Payload("notice", "", "", "", "notify", "title", <<>>),
      Payload("notice", "", "", "", "", "", <<>>),
      Payload("", "private", "", "", "", "", <<>>) }

\* the identifier fields a frame of this kind carries
Declared(kind) ==
    LET event_cls == RegistryGet(kind.post_type, _get_secondary_key(kind))
    IN IF event_cls = None THEN {"self_id"}
       ELSE event_cls[1].strict \cup event_cls[1].lenient \cup event_cls[1].bare

\* the identifiers of a frame of this kind: each field the kind carries is
\* missing or an integer
IdsOf(kind) ==
    { ids \in [IdFields -> {None} \cup { Some(v) : v \in WireIds }] :
        \A f \in IdFields : ids[f] # None => f \in Declared(kind) }

\* the payloads given to the parser
Payloads ==
    UNION { { [kind EXCEPT !.ids = ids] : ids \in IdsOf(kind) } :
            kind \in KnownKinds \cup UnknownKinds }

\* a call of EventParser.parse
Parses(data) ==
    /\ wire' = Some(data)
    /\ parseOut' = parse(data)
    /\ UNCHANGED <<dispatched, nDispatch>>
    /\ UNCHANGED <<busVars, cfgVars, ldrVars, svcVars, rbacVars, restVars>>

\* ------------------------------------------------------------------------
\* EventDispatcher
\* ------------------------------------------------------------------------

T_message_event == <<"n", "c", "a", "t", "b", "o", "t", ".", "m", "e", "s", "s", "a", "g", "e", "_", "e", "v", "e", "n", "t">>

T_notice_event == <<"n", "c", "a", "t", "b", "o", "t", ".", "n", "o", "t", "i", "c", "e", "_", "e", "v", "e", "n", "t">>

T_request_event == <<"n", "c", "a", "t", "b", "o", "t", ".", "r", "e", "q", "u", "e", "s", "t", "_", "e", "v", "e", "n", "t">>

T_meta_event == <<"n", "c", "a", "t", "b", "o", "t", ".", "m", "e", "t", "a", "_", "e", "v", "e", "n", "t">>

T_re_all == <<"r", "e", ":", ".", "*">>

\* f"ncatbot.{EventType. ... .value}" of the event's post_type
PublishedAs(post_type) ==
    IF post_type = "message" THEN T_message_event
    ELSE IF post_type = "notice" THEN T_notice_event
    ELSE IF post_type = "request" THEN T_request_event
    ELSE T_meta_event

\* identifiers of a frame, all fields of its kind given
AllIds(kind, v) == [f \in IdFields |-> IF f \in Declared(kind) THEN Some(v) ELSE None]

\* the frames the gateway delivers in a run
GatewayPayloads ==
    { [kind EXCEPT !.ids = AllIds(kind, MaxWireId)] :
        kind \in { Payload("unknown_type", "", "", "", "", "", <<>>),
                   Payload("notice", "", "", "", "notify", "title", <<>>),
                   Payload("message", "group", "", "", "", "normal", <<>>),
                   Payload("notice", "", "", "", "notify", "poke", <<>>) } }

\* the subscriptions of a run: a regex matching every type, and the
\* message events
GatewaySubscribeCalls ==
    { [event_type |-> T_re_all,        handler |-> hA, priority |-> 50],
      [event_type |-> T_message_event, handler |-> hA, priority |-> 100] }

\* dispatch(data): parse; a payload the parser raises on is logged and
\* dropped; an event is published under the type of its post_type
dispatch(data) ==
    /\ nDispatch < MaxDispatch
    /\ pc \in {"idle", "done"}
    /\ nDispatch' = nDispatch + 1
    /\ wire' = Some(data)
    /\ parseOut' = parse(data)
    /\ IF parseOut'.raised # None
       THEN /\ dispatched' = [outcome |-> "dropped", raised |-> None,
                              drops |-> dispatched.drops + 1]
            /\ UNCHANGED busVars
       ELSE /\ dispatched' = [outcome |-> "published", raised |-> None,
                              drops |-> dispatched.drops]
            /\ PublishCall(PublishedAs(data.post_type))
    /\ UNCHANGED <<cfgVars, ldrVars, svcVars, rbacVars, restVars>>

\* ------------------------------------------------------------------------
\* RBAC engine
\* ------------------------------------------------------------------------

\* RBACService(default_role="user"), the role created before any user
default_role == "user"

RbacUsers == {"u"}

RbacRoles == {"r1", "r2"}

\* the roles of a run that only builds the inheritance forest
ForestRoles == {"r1", "r2", "r3"}

\* the permission path that is declared and granted, and the paths checked:
\* the path itself and a pattern that matches it
P_a_b == <<"a", "b">>

GrantPaths == {P_a_b}

CheckPaths == {P_a_b, <<"a", "*">>}

\* a matcher that stops where the concrete path ends
RECURSIVE PrefixMatches(_, _)
PrefixMatches(pattern, path) ==
    IF pattern = <<>> THEN path = <<>>
    ELSE IF path = <<>> THEN TRUE
    ELSE IF Head(pattern) = "**" THEN TRUE
    ELSE /\ Head(pattern) = "*" \/ Head(pattern) = Head(path)
         /\ PrefixMatches(Tail(pattern), Tail(path))

\* a checked path (which may hold * and **) against a concrete path
RECURSIVE PathMatches(_, _)
PathMatches(pattern, path) ==
    IF pattern = <<>> THEN path = <<>>
    ELSE IF Head(pattern) = "**" THEN path # <<>>
    ELSE IF path = <<>> THEN FALSE
    ELSE /\ Head(pattern) = "*" \/ Head(pattern) = Head(path)
         /\ PathMatches(Tail(pattern), Tail(path))

\* a trie, held as the set of its leaf paths, matches the checked path
TrieMatch(leaves, path) == \E leaf \in leaves : PathMatches(path, leaf)

\* a user or role as created
NewUser == [roles |-> {default_role}, white |-> {}, black |-> {}]

NewRole == [parent |-> None, white |-> {}, black |-> {}]

\* d[key] = value
Put(d, key, value) == [k \in DOMAIN d \cup {key} |-> IF k = key THEN value ELSE d[k]]

\* resolve the user, auto-creating with the default role if absent
Resolved(us, user) == IF user \in DOMAIN us THEN us ELSE Put(us, user, NewUser)

\* the role and its ancestors, walking parent links with a cycle guard
RECURSIVE Chain(_, _, _)
Chain(rs, role, seen) ==
    IF role \in seen \/ role \notin DOMAIN rs THEN seen
    ELSE IF rs[role].parent = None THEN seen \cup {role}
    ELSE Chain(rs, rs[role].parent[1], seen \cup {role})

\* a role set that stops at the roles assigned to the user
DirectRoles(us, rs, user) == us[user].roles \cap DOMAIN rs

\* the closed role set of a user
ClosedRoles(us, rs, user) == UNION { Chain(rs, role, {}) : role \in us[user].roles }

\* the lists of the user and of every role of the closed role set
BlackHit(us, rs, user, path) ==
    \/ TrieMatch(us[user].black, path)
    \/ \E role \in ClosedRoles(us, rs, user) : TrieMatch(rs[role].black, path)

WhiteHit(us, rs, user, path) ==
    \/ TrieMatch(us[user].white, path)
    \/ \E role \in ClosedRoles(us, rs, user) : TrieMatch(rs[role].white, path)

\* a check that looks at the white lists first
CheckWhiteFirst(us, rs, user, path) ==
    IF WhiteHit(us, rs, user, path) THEN TRUE ELSE FALSE

\* check(user, path), the user resolved: any black hit denies; else any
\* white hit allows
Check(us, rs, user, path) ==
    IF BlackHit(us, rs, user, path) THEN FALSE ELSE WhiteHit(us, rs, user, path)

RbacFrame == UNCHANGED <<busVars, cfgVars, ldrVars, svcVars, gwVars, restVars>>

\* add_user(id)
add_user(user) ==
    /\ user \notin DOMAIN users
    /\ users' = Put(users, user, NewUser)
    /\ UNCHANGED <<roles, lastCheck, inheritRaised>>
    /\ RbacFrame

\* add_role(name): a duplicate is rejected
add_role(role) ==
    /\ role \notin DOMAIN roles
    /\ roles' = Put(roles, role, NewRole)
    /\ UNCHANGED <<users, lastCheck, inheritRaised>>
    /\ RbacFrame

\* assign_role(user, role)
assign_role(user, role) ==
    /\ role \in DOMAIN roles
    /\ LET us == Resolved(users, user)
       IN users' = [us EXCEPT ![user].roles = @ \cup {role}]
    /\ UNCHANGED <<roles, lastCheck, inheritRaised>>
    /\ RbacFrame

\* unassign_role(user, role)
unassign_role(user, role) ==
    /\ user \in DOMAIN users
    /\ role \in users[user].roles
    /\ users' = [users EXCEPT ![user].roles = @ \ {role}]
    /\ UNCHANGED <<roles, lastCheck, inheritRaised>>
    /\ RbacFrame

\* set_role_inheritance(child, parent): rejects a cycle by walking the
\* parent chain of the new parent
\* a check that only refuses a role as its own parent
SelfCycleOnly(rs, child, parent) == child = parent

\* the child is met on the walk from the new parent up its parent chain
ClosesCycle(rs, child, parent) == child \in Chain(rs, parent, {})

set_role_inheritance(child, parent) ==
    /\ child \in DOMAIN roles
    /\ parent \in DOMAIN roles
    /\ IF ClosesCycle(roles, child, parent)
       THEN /\ inheritRaised' = Some("ValueError")
            /\ roles' = roles
       ELSE /\ inheritRaised' = None
            /\ roles' = [roles EXCEPT ![child].parent = Some(parent)]
    /\ UNCHANGED <<users, lastCheck>>
    /\ RbacFrame

\* grant(subject_kind, id, path, mode)
grant(subject_kind, id, path, mode) ==
    /\ IF subject_kind = "user"
       THEN /\ id \in DOMAIN users
            /\ users' = IF mode = "white"
                        THEN [users EXCEPT ![id].white = @ \cup {path}]
                        ELSE [users EXCEPT ![id].black = @ \cup {path}]
            /\ UNCHANGED roles
       ELSE /\ id \in DOMAIN roles
            /\ roles' = IF mode = "white"
                        THEN [roles EXCEPT ![id].white = @ \cup {path}]
                        ELSE [roles EXCEPT ![id].black = @ \cup {path}]
            /\ UNCHANGED users
    /\ UNCHANGED <<lastCheck, inheritRaised>>
    /\ RbacFrame

\* revoke(subject_kind, id, path)
revoke(subject_kind, id, path) ==
    /\ IF subject_kind = "user"
       THEN /\ id \in DOMAIN users
            /\ path \in users[id].white \cup users[id].black
            /\ users' = [users EXCEPT ![id].white = @ \ {path},
                                      ![id].black = @ \ {path}]
            /\ UNCHANGED roles
       ELSE /\ id \in DOMAIN roles
            /\ path \in roles[id].white \cup roles[id].black
            /\ roles' = [roles EXCEPT ![id].white = @ \ {path},
                                      ![id].black = @ \ {path}]
            /\ UNCHANGED users
    /\ UNCHANGED <<lastCheck, inheritRaised>>
    /\ RbacFrame

\* the subjects whose lists count for a user: the user, the roles assigned
\* to it and every role reached from those by parent links
Parents(rs, S) ==
    { rs[role].parent[1] : role \in { x \in S \cap DOMAIN rs : rs[x].parent # None } }

Subjects(us, rs, user) ==
    LET direct == us[user].roles
        second == direct \cup Parents(rs, direct)
        third  == second \cup Parents(rs, second)
    IN (third \cup Parents(rs, third)) \cap DOMAIN rs

\* check(user, path)
check(user, path) ==
    /\ users' = Resolved(users, user)
    /\ lastCheck' =
         [user |-> Some(user), path |-> path,
          result |-> Check(users', roles, user, path),
          black |-> \/ TrieMatch(users'[user].black, path)
                    \/ \E role \in Subjects(users', roles, user) :
                          TrieMatch(roles[role].black, path),
          white |-> \/ TrieMatch(users'[user].white, path)
                    \/ \E role \in Subjects(users', roles, user) :
                          TrieMatch(roles[role].white, path)]
    /\ UNCHANGED <<roles, inheritRaised>>
    /\ RbacFrame


\* ------------------------------------------------------------------------
\* The permission path and the permission trie
\* ------------------------------------------------------------------------

Segments == {"a", "b", "c", "*", "**"}

\* the paths of one to MaxSegs segments
PathsUpTo(n) == UNION { [1..k -> Segments] : k \in 1..n }

P_a_star_c == <<"a", "*", "c">>

P_a_starstar == <<"a", "**">>

P_a_b_c == <<"a", "b", "c">>

\* the paths on which matching_path is called
Patterns == {P_a_star_c, P_a_starstar, P_a_b_c}

\* the paths given to add_path
AddPaths == {P_a_b_c, P_a_star_c, P_a_starstar}

HasWildcard(path) == \E i \in 1..Len(path) : path[i] \in {"*", "**"}

IsPrefix(short, long) ==
    /\ Len(short) <= Len(long)
    /\ \A i \in 1..Len(short) : short[i] = long[i]

\* self.matching_path(path), neither or one side holding a wildcard: the
\* side with the wildcard is the pattern; of two concrete paths the
\* argument may be a prefix of self
MatchingPath(self, path) ==
    IF HasWildcard(self) THEN PathMatches(self, path)
    ELSE IF HasWildcard(path) THEN PathMatches(path, self)
    ELSE IsPrefix(path, self)

PathFrame == UNCHANGED <<busVars, cfgVars, ldrVars, svcVars, gwVars, rbacVars, depVars, fwVars, lcVars, impVars, lateVars>>

\* PermissionPath(self).matching_path(path)
matching_path(self, path) ==
    /\ pathCall' =
         IF HasWildcard(self) /\ HasWildcard(path)
         THEN [op |-> "matching_path", self |-> self, path |-> path,
               result |-> FALSE, raised |-> Some("ValueError")]
         ELSE [op |-> "matching_path", self |-> self, path |-> path,
               result |-> MatchingPath(self, path), raised |-> None]
    /\ UNCHANGED trie
    /\ PathFrame

\* Trie.add_path(path)
add_path(path) ==
    /\ IF HasWildcard(path)
       THEN /\ pathCall' = [op |-> "add_path", self |-> <<>>, path |-> path,
                            result |-> FALSE, raised |-> Some("ValueError")]
            /\ trie' = trie
       ELSE /\ pathCall' = [op |-> "add_path", self |-> <<>>, path |-> path,
                            result |-> FALSE, raised |-> None]
            /\ trie' = trie \cup {path}
    /\ PathFrame


\* ------------------------------------------------------------------------
\* The dependency resolver
\* ------------------------------------------------------------------------

PluginNames == {"A", "B", "C", "D"}

\* the orders in which a dict over the names can be iterated
InsertionOrders(S) ==
    { perm \in [1..Cardinality(S) -> S] :
        \A i, j \in 1..Cardinality(S) : i # j => perm[i] # perm[j] }

\* the manifests of a set of plugins, each naming at most MaxDeps of them
ManifestSets ==
    UNION { [S -> { deps \in SUBSET S : Cardinality(deps) <= MaxDeps }] :
            S \in SUBSET PluginNames \ {{}} }

\* the queue loop of the topological sort: take the head, then queue every
\* plugin that depends on it and has no dependency left unsorted
RECURSIVE KahnLoop(_, _, _, _)
KahnLoop(g, perm, queue, order) ==
    IF queue = <<>> THEN order
    ELSE LET cur    == Head(queue)
             sorted == { order[i] : i \in 1..Len(order) } \cup {cur}
             next   == SelectSeq(perm, LAMBDA k : cur \in g[k] /\ g[k] \subseteq sorted)
         IN KahnLoop(g, perm, Tail(queue) \o next, order \o <<cur>>)

\* the order the sort reaches before its queue runs dry
Sorted(g, perm) ==
    KahnLoop(g, perm, SelectSeq(perm, LAMBDA k : g[k] = {}), <<>>)

\* a resolve that returns whatever the sort reached
ResolveUnchecked(g, order) == [order |-> order, raised |-> None]

\* resolve(): the order, or the error when plugins are left over
Resolve(g, order) ==
    IF Len(order) # Cardinality(DOMAIN g)
    THEN [order |-> <<>>, raised |-> Some("PluginCircularDependencyError")]
    ELSE [order |-> order, raised |-> None]

DepFrame == UNCHANGED <<busVars, cfgVars, ldrVars, svcVars, gwVars, rbacVars, pathVars, fwVars, lcVars, impVars, lateVars>>

NotResolved == [done |-> FALSE, order |-> <<>>, raised |-> None]

\* _DependencyResolver().build(manifests)
build(manifests) ==
    /\ graph = <<>>
    /\ graph' = manifests
    /\ resolved' = NotResolved
    /\ DepFrame

\* resolve(), the graph dict iterated in its insertion order
resolve(perm) ==
    /\ graph # <<>>
    /\ \E order \in {Sorted(graph, perm)} :
          resolved' = [done |-> TRUE, order |-> Resolve(graph, order).order,
                       raised |-> Resolve(graph, order).raised]
    /\ UNCHANGED graph
    /\ DepFrame


\* ------------------------------------------------------------------------
\* The file watcher
\* ------------------------------------------------------------------------

\* _debounce_delay and _watch_interval as the constructor is given them,
\* in ticks: a debounce delay of two scan intervals
debounce_delay == 2

watch_interval == 1

\* changed files, as the parts of their path relative to the plugins
\* directory
ChangedFiles == {<<"p1", "main.py">>, <<"p2", "main.py">>, <<"top.py">>}

PluginDirs == {"p1", "p2"}

\* _on_file_changed: outside debug mode nothing; else the first-level
\* directory of a file that lies in one becomes pending
_on_file_changed(pending, parts, debug) ==
    IF ~debug THEN pending
    ELSE IF Len(parts) > 1 THEN pending \cup {parts[1]}
    ELSE pending

\* _on_file_changed for every changed file of a scan
RECURSIVE OnFilesChanged(_, _, _)
OnFilesChanged(pending, changed, debug) ==
    IF changed = {} THEN pending
    ELSE LET parts == CHOOSE f \in changed : TRUE
         IN OnFilesChanged(_on_file_changed(pending, parts, debug),
                           changed \ {parts}, debug)

\* a debounce test that always passes
NeverDebounced(since) == TRUE

\* not (current_time - _last_process_time < _debounce_delay)
Debounced(since) == ~(since < debounce_delay)

WatcherFrame == UNCHANGED <<busVars, cfgVars, ldrVars, svcVars, gwVars, rbacVars, pathVars, depVars, lcVars, impVars, lateVars>>

\* pause(), on the main thread
pause ==
    /\ _paused' = FALSE
    /\ UNCHANGED <<_pending_dirs, _reload_callback, elapsed, wpc,
                   dirs_to_process, round, called, ends, failedBefore, fatal>>
    /\ WatcherFrame

\* resume(), on the main thread
resume ==
    /\ _paused' = TRUE
    /\ UNCHANGED <<_pending_dirs, _reload_callback, elapsed, wpc,
                   dirs_to_process, round, called, ends, failedBefore, fatal>>
    /\ WatcherFrame

\* set_reload_callback(callback), on the main thread
set_reload_callback ==
    /\ _reload_callback' = TRUE
    /\ UNCHANGED <<_paused, _pending_dirs, elapsed, wpc, dirs_to_process,
                   round, called, ends, failedBefore, fatal>>
    /\ WatcherFrame

\* _watch_loop: the scan of the watched directories
_scan_files(changed, debug) ==
    /\ wpc = "scan"
    /\ _pending_dirs' = OnFilesChanged(_pending_dirs, changed, debug)
    /\ round' = None
    /\ called' = <<>>
    /\ ends' = <<>>
    /\ failedBefore' = (failedBefore \/ "Exception" \in Elems(ends))
    /\ wpc' = "process"
    /\ UNCHANGED <<_paused, _reload_callback, elapsed, dirs_to_process, fatal>>
    /\ WatcherFrame

\* _process_pending up to its loop over the snapshot
_process_pending ==
    /\ wpc = "process"
    /\ IF ~_paused \/ _pending_dirs = {} \/ ~Debounced(elapsed)
       THEN /\ wpc' = "wait"
            /\ UNCHANGED <<_pending_dirs, elapsed, dirs_to_process, round>>
       ELSE /\ _pending_dirs' = {}
            /\ elapsed' = 0
            /\ round' = Some([snapshot |-> _pending_dirs,
                              callback |-> _reload_callback])
            /\ IF ~_reload_callback
               THEN wpc' = "wait" /\ UNCHANGED dirs_to_process
               ELSE wpc' = "dispatch" /\ dirs_to_process' = _pending_dirs
    /\ UNCHANGED <<_paused, _reload_callback, called, ends, failedBefore, fatal>>
    /\ WatcherFrame

\* how a reload callback ends: it returns, raises an Exception, or raises
\* a BaseException that is no Exception (SystemExit, KeyboardInterrupt,
\* asyncio.CancelledError)
CallbackEnds == {"ok", "Exception", "BaseException"}

\* handlers that catch nothing
CatchesNothing(ending) == ending = "ok"

\* except Exception, in run_callback, around asyncio.run and in _watch_loop
CatchesException(ending) == ending \in {"ok", "Exception"}

\* one pass of the loop of _process_pending: _trigger_reload(plugin_dir),
\* the callback ending with ending; what no handler catches leaves
\* _process_pending and _watch_loop and ends the thread
_trigger_reload(plugin_dir, ending) ==
    /\ wpc = "dispatch"
    /\ plugin_dir \in dirs_to_process
    /\ _reload_callback \/ ending = "ok"
    /\ called' = IF _reload_callback THEN Append(called, plugin_dir) ELSE called
    /\ ends' = IF _reload_callback THEN Append(ends, ending) ELSE ends
    /\ fatal' = (fatal \/ ending = "BaseException")
    /\ dirs_to_process' = dirs_to_process \ {plugin_dir}
    /\ wpc' = IF ~CatchesException(ending) THEN "ended"
              ELSE IF dirs_to_process' = {} THEN "wait" ELSE "dispatch"
    /\ UNCHANGED <<_paused, _pending_dirs, _reload_callback, elapsed, round,
                   failedBefore>>
    /\ WatcherFrame

\* _stop_event.wait(_watch_interval)
wait ==
    /\ wpc = "wait"
    /\ elapsed' = IF elapsed + watch_interval > debounce_delay
                  THEN debounce_delay ELSE elapsed + watch_interval
    /\ wpc' = "scan"
    /\ UNCHANGED <<_paused, _pending_dirs, _reload_callback, dirs_to_process,
                   round, called, ends, failedBefore, fatal>>
    /\ WatcherFrame


\* ------------------------------------------------------------------------
\* The file watcher: scans of the watch directories
\* ------------------------------------------------------------------------

\* the watch directories: the plugins directory and one added later
WatchDirs == {"w1", "w2"}

\* the .py files there can be, as the parts of their absolute path: one
\* plugin directory with one file in each watch directory
WatchedFiles == {<<"w1", "p1", "main.py">>, <<"w2", "p2", "main.py">>}

\* os.path.relpath(file_path, plugins_dir).split(os.sep), the watch
\* directories being siblings
RelParts(file_path, plugins_dir) ==
    IF file_path[1] = plugins_dir THEN Tail(file_path)
    ELSE <<"..">> \o file_path

\* the orders in which list(self._watch_dirs) can give the directories
DirOrders(dirs) ==
    { order \in UNION { [1..n -> dirs] : n \in 0..Cardinality(dirs) } :
        /\ Len(order) = Cardinality(dirs)
        /\ \A i, j \in 1..Len(order) : i # j => order[i] # order[j] }

\* the files _scan_files(plugins_dir) passes to _on_file_changed: a file of
\* the directory that is not cached, once the first scan is done; a cached
\* one whose time differs; a cached one that is gone, once the first scan
\* is done
ChangedInScan(cache, files, plugins_dir, done) ==
    { f \in DOMAIN files : f[1] = plugins_dir /\ f \notin DOMAIN cache /\ done }
    \cup { f \in DOMAIN files :
             f[1] = plugins_dir /\ f \in DOMAIN cache /\ cache[f] # files[f] }
    \cup { f \in DOMAIN cache \ DOMAIN files : done }

\* _on_file_changed(file_path, plugins_dir) for each of the files
RECURSIVE MarkPending(_, _, _, _)
MarkPending(pending, changed, plugins_dir, debug) ==
    IF changed = {} THEN pending
    ELSE LET f == CHOOSE x \in changed : TRUE
         IN MarkPending(_on_file_changed(pending, RelParts(f, plugins_dir), debug),
                        changed \ {f}, plugins_dir, debug)

\* _scan_files(plugins_dir) on the cache, the flag and the pending set
ScanDir(st, plugins_dir, debug) ==
    LET inDir == { f \in DOMAIN disk : f[1] = plugins_dir }
        kept  == (DOMAIN st.cache \cap DOMAIN disk) \cup inDir
    IN [cache   |-> [f \in kept |-> IF f \in inDir THEN disk[f] ELSE st.cache[f]],
        done    |-> TRUE,
        pending |-> MarkPending(st.pending,
                                ChangedInScan(st.cache, disk, plugins_dir, st.done),
                                plugins_dir, debug)]

\* for watch_dir in order: _scan_files(watch_dir)
RECURSIVE ScanAll(_, _, _)
ScanAll(st, order, debug) ==
    IF order = <<>> THEN st
    ELSE ScanAll(ScanDir(st, Head(order), debug), Tail(order), debug)

ScanFrame == UNCHANGED <<busVars, cfgVars, ldrVars, svcVars, gwVars, rbacVars, pathVars, depVars, lcVars, impVars, runVars, raceVars, _paused, _reload_callback, elapsed, wpc, dirs_to_process, round, called, ends, failedBefore, fatal>>

\* add_watch_dir(directory), on the main thread
add_watch_dir(directory) ==
    /\ directory \notin _watch_dirs
    /\ _watch_dirs' = _watch_dirs \cup {directory}
    /\ UNCHANGED <<_file_cache, _first_scan_done, disk, scanned, _pending_dirs>>
    /\ ScanFrame

\* one iteration of _watch_loop, up to _process_pending: the watch
\* directories are scanned one after the other, in order
watch_loop_scans(order, debug) ==
    /\ order \in DirOrders(_watch_dirs)
    /\ LET st == ScanAll([cache |-> _file_cache, done |-> _first_scan_done,
                          pending |-> _pending_dirs], order, debug)
       IN /\ _file_cache' = st.cache
          /\ _first_scan_done' = st.done
          /\ _pending_dirs' = st.pending
    /\ scanned' = scanned \cup _watch_dirs
    /\ UNCHANGED <<_watch_dirs, disk>>
    /\ ScanFrame

\* a file is written: created, or saved again with a later time
write_file(f) ==
    /\ f \in DOMAIN disk => disk[f] < MaxMtime
    /\ disk' = Put(disk, f, IF f \in DOMAIN disk THEN disk[f] + 1 ELSE 1)
    /\ UNCHANGED <<_watch_dirs, _file_cache, _first_scan_done, scanned, _pending_dirs>>
    /\ ScanFrame

\* a file is deleted
remove_file(f) ==
    /\ f \in DOMAIN disk
    /\ disk' = [g \in DOMAIN disk \ {f} |-> disk[g]]
    /\ UNCHANGED <<_watch_dirs, _file_cache, _first_scan_done, scanned, _pending_dirs>>
    /\ ScanFrame

\* ------------------------------------------------------------------------
\* The lifecycle manager
\* ------------------------------------------------------------------------

\* where a core execution ends: in load_all, in load_plugins, in listen, or
\* by the return of listen
Stages == {"load_all", "load_plugins", "listen", "return"}

\* what ends it when it does not return
Errors == {"Exception", "CancelledError"}

NoRun ==
    [stage |-> "none", how |-> "none", loaded |-> <<>>, failing |-> {},
     cleanups |-> 0, log |-> <<>>, closes |-> <<>>, raised |-> None]

\* _cleanup(): nothing when not running; else unload_all of the plugin
\* loader, then close_all of the service manager
_cleanup(running, st, failing) ==
    IF ~running THEN [ran |-> FALSE, log |-> <<>>, st |-> st]
    ELSE [ran |-> TRUE, log |-> <<"unload_all", "close_all">>,
          st |-> CloseAllFrom(st, NamesOf(st.services), failing)]

LifecycleFrame == UNCHANGED <<busVars, cfgVars, ldrVars, gwVars, rbacVars, pathVars, depVars, fwVars, impVars, lateVars>>

\* _prepare_startup(**kwargs)
_prepare_startup ==
    /\ phase = "new"
    /\ _running' = TRUE
    /\ phase' = "prepared"
    /\ UNCHANGED <<lastRun, svcVars>>
    /\ LifecycleFrame

\* _core_execution(): load_all, load_plugins and listen until stage ends
\* it with error (or listen returns), then the finally clause
_core_execution(stage, error, failLoad, failClose) ==
    /\ phase = "prepared"
    /\ LET loaded  == LoadAllFrom(CallStart, service_classes, failLoad)
           cleanup == _cleanup(_running, [loaded EXCEPT !.raised = None],
                               failClose)
       IN /\ (stage = "load_all") = (loaded.raised # None)
          /\ stage # "load_all" => failLoad = {}
          /\ _running' = IF cleanup.ran THEN FALSE ELSE _running
          /\ services' = cleanup.st.services
          /\ nextInst' = cleanup.st.nextInst
          /\ lastRun' = [stage |-> stage,
                         how |-> IF stage = "return" THEN "returned" ELSE error,
                         loaded |-> loaded.services,
                         failing |-> failClose \cap Elems(NamesOf(loaded.services)),
                         cleanups |-> IF cleanup.ran THEN 1 ELSE 0,
                         log |-> cleanup.log,
                         closes |-> cleanup.st.closes,
                         raised |-> cleanup.st.raised]
    /\ phase' = "stopped"
    /\ UNCHANGED <<service_classes, lastCall, failedLoads, nCalls>>
    /\ LifecycleFrame


\* ------------------------------------------------------------------------
\* The lifecycle manager: background run and shutdown
\* ------------------------------------------------------------------------

\* how _prepare_startup ends: it returns, or raises for an illegal
\* argument, in validate_config, or in launch_napcat_service
PrepareEnds == {"ok", "illegal", "invalid", "launch"}

\* how an await of the core task ends when the task is not cancelled
AwaitEnds == {"ok", "Exception"}

\* the awaits of _core_execution up to its finally clause
StartupPlaces == {"created", "load_all", "load_plugins", "listen"}

NoProgress == [services |-> FALSE, attached |-> FALSE, plugins |-> FALSE]

StartupComplete == progress.services /\ progress.attached /\ progress.plugins

\* a flag set at the very start of _prepare_startup
RunningSetFirst(ending) == TRUE

\* self._running after _prepare_startup: the flag is set after the
\* arguments and the config are checked and before the gateway is launched
RunningSetBy(ending) == ending \in {"ok", "launch"}

\* the task is waiting at one of its awaits
TaskLive == _main_task \notin {"none", "done"}

BackendFrame == UNCHANGED <<busVars, cfgVars, ldrVars, svcVars, gwVars, rbacVars, pathVars, depVars, fwVars, impVars, phase, lastRun, raceVars, scanVars>>

\* run_backend_async(**kwargs) up to its await: with the bot running it
\* returns self.api; else _prepare_startup, which ends with prep, then the
\* startup event and the core task are created
run_backend_async(prep) ==
    /\ IF _running
       THEN /\ lastReturn' = Some([handle |-> api, complete |-> StartupComplete,
                                   own |-> FALSE])
            /\ UNCHANGED <<_running, _startup_event, _main_task, cancelling,
                           leaving, taskResult, starter, progress, nStarts>>
       ELSE /\ ~TaskLive
            /\ starter # "waiting"
            /\ nStarts < MaxStarts
            /\ _running' = RunningSetBy(prep)
            /\ IF prep = "ok"
               THEN /\ _startup_event' = "clear"
                    /\ _main_task' = "created"
                    /\ cancelling' = FALSE
                    /\ leaving' = "none"
                    /\ taskResult' = "none"
                    /\ progress' = NoProgress
                    /\ starter' = "waiting"
                    /\ nStarts' = nStarts + 1
                    /\ UNCHANGED lastReturn
               ELSE /\ starter' = "raised"
                    /\ lastReturn' = None
                    /\ UNCHANGED <<_startup_event, _main_task, cancelling,
                                   leaving, taskResult, progress, nStarts>>
    /\ UNCHANGED <<api, servicesUp, pluginsUp, closer, lastShutdown, reported>>
    /\ BackendFrame

\* run_backend_async after asyncio.wait: the task done, it raises; else it
\* returns self.api
run_backend_async_wakes ==
    /\ starter = "waiting"
    /\ _startup_event = "set" \/ _main_task = "done"
    /\ IF _main_task = "done"
       THEN starter' = "raised" /\ lastReturn' = None
       ELSE /\ starter' = "returned"
            /\ lastReturn' = Some([handle |-> api, complete |-> StartupComplete,
                                   own |-> TRUE])
    /\ UNCHANGED <<_running, api, _startup_event, _main_task, cancelling,
                   leaving, taskResult, servicesUp, pluginsUp, closer, progress,
                   lastShutdown, reported, nStarts>>
    /\ BackendFrame

\* One step of the core task, from the await it is suspended at to the
\* next.  A cancelled task has CancelledError raised at its await; a task
\* cancelled before its first step never enters the coroutine.  What
\* leaves the try block goes through the finally clause: _cleanup returns
\* at once when not running, else clears the flag, awaits unload_all, then
\* close_all.  partial: an interrupted load left something loaded.
core_task_step(ending, partial) ==
    /\ TaskLive
    /\ LET raised == IF cancelling THEN "CancelledError"
                     ELSE IF ending = "Exception" THEN "Exception" ELSE "none"
           \* the finally clause begins, exc leaving the try block
           Finally(exc) ==
               IF ~_running
               THEN /\ _main_task' = "done"
                    /\ taskResult' = IF exc = "none" THEN "returned" ELSE exc
                    /\ UNCHANGED <<_running, leaving>>
               ELSE /\ _running' = FALSE
                    /\ leaving' = exc
                    /\ _main_task' = "unload_all"
                    /\ UNCHANGED taskResult
       IN /\ cancelling' = FALSE
          /\ CASE _main_task = "created" ->
                   /\ IF cancelling
                      THEN _main_task' = "done" /\ taskResult' = "CancelledError"
                      ELSE _main_task' = "load_all" /\ UNCHANGED taskResult
                   /\ ending = "ok" /\ ~partial
                   /\ UNCHANGED <<_running, leaving, api, _startup_event,
                                  servicesUp, pluginsUp, progress>>
               [] _main_task = "load_all" ->
                   IF raised = "none"
                   THEN /\ ~partial
                        /\ servicesUp' = TRUE
                        /\ api' = TRUE
                        /\ progress' = [progress EXCEPT !.services = TRUE,
                                                        !.attached = TRUE]
                        /\ _main_task' = "load_plugins"
                        /\ UNCHANGED <<_running, leaving, taskResult,
                                       _startup_event, pluginsUp>>
                   ELSE /\ servicesUp' = (servicesUp \/ partial)
                        /\ Finally(raised)
                        /\ UNCHANGED <<api, _startup_event, pluginsUp, progress>>
               [] _main_task = "load_plugins" ->
                   IF raised = "none"
                   THEN /\ ~partial
                        /\ pluginsUp' = TRUE
                        /\ progress' = [progress EXCEPT !.plugins = TRUE]
                        /\ _startup_event' = "set"
                        /\ _main_task' = "listen"
                        /\ UNCHANGED <<_running, leaving, taskResult, api,
                                       servicesUp>>
                   ELSE /\ pluginsUp' = (pluginsUp \/ partial)
                        /\ Finally(raised)
                        /\ UNCHANGED <<api, _startup_event, servicesUp, progress>>
               [] _main_task = "listen" ->
                   /\ ~partial
                   /\ Finally(raised)
                   /\ UNCHANGED <<api, _startup_event, servicesUp, pluginsUp,
                                  progress>>
               [] _main_task = "unload_all" ->
                   /\ ~partial
                   /\ ending = "ok"
                   /\ IF cancelling
                      THEN /\ _main_task' = "done"
                           /\ taskResult' = "CancelledError"
                           /\ UNCHANGED pluginsUp
                      ELSE /\ pluginsUp' = FALSE
                           /\ _main_task' = "close_all"
                           /\ UNCHANGED taskResult
                   /\ UNCHANGED <<_running, leaving, api, _startup_event,
                                  servicesUp, progress>>
               [] _main_task = "close_all" ->
                   /\ ~partial
                   /\ _main_task' = "done"
                   /\ IF raised = "none"
                      THEN /\ servicesUp' = FALSE
                           /\ taskResult' = IF leaving = "none" THEN "returned"
                                             ELSE leaving
                      ELSE \* an on_close raised or the task was cancelled:
                           \* close_all is left where it was
                           /\ taskResult' = raised
                           /\ UNCHANGED servicesUp
                   /\ UNCHANGED <<_running, leaving, api, _startup_event,
                                  pluginsUp, progress>>
    /\ UNCHANGED <<starter, closer, lastReturn, lastShutdown, reported, nStarts>>
    /\ BackendFrame

\* what a returning shutdown() leaves behind
ShutdownReturn(waited) ==
    Some([plugins |-> pluginsUp, services |-> servicesUp,
          started |-> StartupComplete, waited |-> waited,
          result |-> taskResult])

\* shutdown() up to its await: nothing when not running; else the task,
\* if there is one and it is not done, is cancelled and awaited
shutdown ==
    /\ closer = "idle"
    /\ IF ~_running
       THEN /\ reported' = "not running"
            /\ lastShutdown' = ShutdownReturn(FALSE)
            /\ UNCHANGED <<cancelling, closer>>
       ELSE IF TaskLive
       THEN /\ reported' = "running"
            /\ cancelling' = TRUE
            /\ closer' = "awaiting"
            /\ UNCHANGED lastShutdown
       ELSE /\ reported' = "running"
            /\ lastShutdown' = ShutdownReturn(FALSE)
            /\ UNCHANGED <<cancelling, closer>>
    /\ UNCHANGED <<_running, api, _startup_event, _main_task, leaving,
                   taskResult, servicesUp, pluginsUp, starter, progress,
                   lastReturn, nStarts>>
    /\ BackendFrame

\* shutdown() after await self._main_task: whatever the task raised is
\* swallowed
shutdown_wakes ==
    /\ closer = "awaiting"
    /\ _main_task = "done"
    /\ closer' = "idle"
    /\ lastShutdown' = ShutdownReturn(TRUE)
    /\ UNCHANGED <<_running, api, _startup_event, _main_task, cancelling,
                   leaving, taskResult, servicesUp, pluginsUp, starter, progress,
                   lastReturn, reported, nStarts>>
    /\ BackendFrame

\* bot_exit(): a warning when not running; else the task, if there is one
\* and it is not done, is cancelled
bot_exit ==
    /\ reported' = IF _running THEN "exit requested" ELSE "not running"
    /\ reported' # reported \/ (_running /\ TaskLive /\ ~cancelling)
    /\ cancelling' = IF _running /\ TaskLive THEN TRUE ELSE cancelling
    /\ UNCHANGED <<_running, api, _startup_event, _main_task, leaving,
                   taskResult, servicesUp, pluginsUp, starter, closer, progress,
                   lastReturn, lastShutdown, nStarts>>
    /\ BackendFrame

\* ------------------------------------------------------------------------
\* The module importer
\* ------------------------------------------------------------------------

\* the characters plugin names are drawn from: a letter, a digit and one
\* that is neither
NameChars == {"a", "1", "-"}

NamesUpTo(n) == UNION { [1..k -> NameChars] : k \in 1..n }

\* the characters of [0-9a-zA-Z_] that occur
WordChars == {"a", "g", "i", "l", "n", "p", "u", "_"} \cup Elems(Digits)

\* re.sub(r"[^0-9a-zA-Z_]", "_", plugin_name), then "_" before a leading
\* digit, then "_plugin" for an empty result
BaseSanitized(plugin_name) ==
    LET subbed   == [i \in 1..Len(plugin_name) |->
                       IF plugin_name[i] \in WordChars THEN plugin_name[i] ELSE "_"]
        prefixed == IF subbed # <<>> /\ subbed[1] \in Elems(Digits)
                    THEN <<"_">> \o subbed ELSE subbed
    IN IF prefixed = <<>> THEN <<"_", "p", "l", "u", "g", "i", "n">> ELSE prefixed

\* a suffix loop that returns the base name as it is
NoSuffix(base, used, suffix) == base

\* while sanitized in self._used_sanitized: base_suffix, suffix += 1
RECURSIVE Suffixed(_, _, _)
Suffixed(base, used, suffix) ==
    IF (base \o <<"_">> \o Str(suffix)) \notin used
    THEN base \o <<"_">> \o Str(suffix)
    ELSE Suffixed(base, used, suffix + 1)

Sanitized(plugin_name, used) ==
    IF BaseSanitized(plugin_name) \notin used THEN BaseSanitized(plugin_name)
    ELSE Suffixed(BaseSanitized(plugin_name), used, 1)

ImporterFrame == UNCHANGED <<busVars, cfgVars, ldrVars, svcVars, gwVars, rbacVars, pathVars, depVars, fwVars, lcVars, lateVars>>

\* _ensure_sanitized(plugin_name), as inspect_all calls it for a manifest
_ensure_sanitized(plugin_name) ==
    /\ plugin_name \in DOMAIN _sanitized_names
          \/ Cardinality(DOMAIN _sanitized_names) < MaxPlugins
    /\ IF plugin_name \in DOMAIN _sanitized_names
       THEN UNCHANGED <<_sanitized_names, _used_sanitized>>
       ELSE /\ _used_sanitized' =
                 _used_sanitized \cup {Sanitized(plugin_name, _used_sanitized)}
            /\ _sanitized_names' =
                 Put(_sanitized_names, plugin_name,
                     Sanitized(plugin_name, _used_sanitized))
    /\ UNCHANGED <<sys_modules, sys_path, nextModule, importCall, nImports>>
    /\ ImporterFrame

\* the plugins whose modules are loaded and unloaded: their sanitized
\* names are "a" and "a_"
ImpPlugins == {<<"a">>, <<"a", "-">>}

\* _get_plugin_pkg_name(name): "ncatbot_plugin." and the sanitized name, or
\* the name itself when none is recorded
_get_plugin_pkg_name(name) ==
    <<"ncatbot_plugin", ".">> \o
        (IF name \in DOMAIN _sanitized_names THEN _sanitized_names[name] ELSE name)

\* _get_plugin_main_module_name(name), the manifest's main being main.py
_get_plugin_main_module_name(name) == _get_plugin_pkg_name(name) \o <<".", "main">>

\* d without the keys
WithoutKeys(d, keys) == [k \in DOMAIN d \ keys |-> d[k]]

\* a test that takes every key beginning with the package name
TextualPrefix(module_name, pkg_name) == StartsWith(module_name, pkg_name)

\* module_name == pkg_name or module_name.startswith(f"{pkg_name}.")
OwnedBy(module_name, pkg_name) ==
    module_name = pkg_name \/ StartsWith(module_name, pkg_name \o <<".">>)

\* the modules of the plugin's package that executing the entry imports
RECURSIVE Imported(_, _, _, _)
Imported(modules, pkg_name, imports, module) ==
    IF imports = {} THEN modules
    ELSE LET sub == CHOOSE x \in imports : TRUE
             key == pkg_name \o <<".", sub>>
         IN Imported(IF key \in DOMAIN modules THEN modules
                     ELSE Put(modules, key, module),
                     pkg_name, imports \ {sub}, module)

\* load_plugin_module(plugin_name): imports are the modules the entry
\* imports from its package before it ends with ending
load_plugin_module(plugin_name, imports, ending) ==
    /\ nImports < MaxImports
    /\ nImports' = nImports + 1
    /\ IF plugin_name \notin DOMAIN _sanitized_names
       THEN \* self._plugin_folders[name] in _get_plugin_dir
            /\ importCall' = [op |-> "load", plugin |-> plugin_name,
                              before |-> sys_modules, pathBefore |-> sys_path,
                              raised |-> Some("KeyError")]
            /\ UNCHANGED <<sys_modules, sys_path, nextModule>>
       ELSE LET original_sys_path == sys_path
                pkg_name    == _get_plugin_pkg_name(plugin_name)
                module_name == _get_plugin_main_module_name(plugin_name)
                created_pkg == pkg_name \notin DOMAIN sys_modules
                withPkg     == IF created_pkg
                               THEN Put(sys_modules, pkg_name, nextModule)
                               ELSE sys_modules
                withModule  == Put(withPkg, module_name, nextModule + 1)
                executed    == Imported(withModule, pkg_name, imports, nextModule + 2)
                rolledBack  == WithoutKeys(executed,
                                  {module_name} \cup
                                  (IF created_pkg THEN {pkg_name} ELSE {}))
            IN /\ sys_modules' = IF ending = "Exception" THEN rolledBack
                                 ELSE executed
               /\ sys_path' = original_sys_path
               /\ nextModule' = nextModule + 3
               /\ importCall' = [op |-> "load", plugin |-> plugin_name,
                                 before |-> sys_modules, pathBefore |-> sys_path,
                                 raised |-> IF ending = "ok" THEN None
                                            ELSE Some(ending)]
    /\ UNCHANGED <<_sanitized_names, _used_sanitized>>
    /\ ImporterFrame

\* unload_plugin_module(plugin_name)
unload_plugin_module(plugin_name) ==
    /\ nImports < MaxImports
    /\ nImports' = nImports + 1
    /\ sys_modules' =
         WithoutKeys(sys_modules,
                     { module_name \in DOMAIN sys_modules :
                         OwnedBy(module_name, _get_plugin_pkg_name(plugin_name)) })
    /\ importCall' = [op |-> "unload", plugin |-> plugin_name,
                      before |-> sys_modules, pathBefore |-> sys_path,
                      raised |-> None]
    /\ UNCHANGED <<_sanitized_names, _used_sanitized, sys_path, nextModule>>
    /\ ImporterFrame

\* ------------------------------------------------------------------------
\* Specifications
\* ------------------------------------------------------------------------

InitConfig ==
    /\ configs = <<>>
    /\ config_items = <<>>
    /\ shared = {}
    /\ regRaised = None
    /\ unloads = {}
    /\ dirty = FALSE
    /\ tasks = <<>>
    /\ cfgFile = NoFile
    /\ tmpFile = NoFile
    /\ acked = <<>>
    /\ nSets = 0

InitBus ==
    /\ exact = <<>>
    /\ regex = <<>>
    /\ handler_meta = <<>>
    /\ nextHid = 1
    /\ pc = "idle"
    /\ handlers = <<>>
    /\ idx = 0
    /\ event = NewEvent(<<>>)
    /\ outcome = "none"
    /\ returned = <<>>
    /\ threads = {}
    /\ removed = {}
    /\ removedBefore = {}
    /\ nUnsub = 0
    /\ log = <<>>
    /\ stopper = {}

NextBus ==
    \/ \E c \in SubscribeCalls :
          Subscribe(c.event_type, c.handler, c.priority, c.handler.timeout,
                    c.handler.plugin)
    \/ \E id \in 1..MaxSubs : Unsubscribe(id)
    \/ Shutdown
    \/ \E t \in EventTypes : PublishStart(t)
    \/ \E stop \in BOOLEAN : HandlerReturns(stop)
    \/ \E cls \in RaisedClasses, stop \in BOOLEAN : HandlerRaises(cls, stop)
    \/ \E stop \in BOOLEAN : HandlerTimesOut(stop)
    \/ \E i \in 1..MaxSubs, stop \in BOOLEAN : ThreadEnds(i, stop)

NextConfig ==
    \/ \E q \in CfgPlugins, n \in CfgNames, v \in CfgValues : Set(q, n, v)
    \/ \E q \in CfgPlugins, n \in CfgNames, v \in CfgValues, loop, ok \in BOOLEAN :
          set_atomic(q, n, v, loop, ok)
    \/ \E i \in 1..MaxTasks : SaveBegin(i)
    \/ \E i \in 1..MaxTasks : SaveOpenTmp(i)
    \/ \E i \in 1..MaxTasks, ok \in BOOLEAN : SaveWrite(i, ok)
    \/ \E i \in 1..MaxTasks : SaveReplace(i)
    \/ CrashRestart

\* The config store as plugins declare their configs, are unloaded and
\* loaded again; values are written with set_atomic and saved synchronously
\* (no running event loop).
NextDeclare ==
    \/ \E q \in CfgPlugins, n \in CfgNames, d \in CfgDefaults, t \in ValueTypes :
          register_config(q, n, d, t)
    \/ \E q \in CfgPlugins, n \in CfgNames, v \in SetValues :
          set_atomic(q, n, v, FALSE, TRUE)
    \/ \E q \in CfgPlugins, n \in CfgNames, v \in SetValues :
          CallerMutatesDefault(q, n, v)
    \/ \E q \in CfgPlugins : delete_plugin_config(q)
    \/ \E q \in CfgPlugins : UnloadClearsDeclarations(q)
    \/ CrashRestart

InitLoader ==
    /\ ldr = [state |-> "unloaded", step |-> 0]
    /\ plugins = <<>>
    /\ commands = <<>>
    /\ aliases = <<>>
    /\ firstLoad = None
    /\ nLoads = 0

\* The loader loading, unloading and loading again the plugin, while
\* handlers that belong to no plugin are subscribed and unsubscribed and
\* the plugin's config values are written.
NextReload ==
    \/ LoadStart
    \/ LoadSubscribes
    \/ LoadRegistersConfig
    \/ LoadDone
    \/ UnloadStart
    \/ UnloadUnsubscribes
    \/ UnloadDone
    \/ \E c \in { d \in SubscribeCalls : d.handler.plugin = None } :
          Subscribe(c.event_type, c.handler, c.priority, c.handler.timeout,
                    c.handler.plugin)
    \/ \E id \in (1..(MaxSubs + 2 * MaxLoads)) \ OwnedIds : Unsubscribe(id)
    \/ \E n \in CfgNames, v \in CfgValues :
          set_atomic(ReloadPlugin.name, n, v, FALSE, TRUE)

InitServices ==
    /\ service_classes = <<>>
    /\ services = <<>>
    /\ nextInst = 1
    /\ lastCall = [op |-> "none", arg |-> "", failing |-> {}, before |-> <<>>,
                   instBefore |-> 1, loads |-> <<>>, closes |-> <<>>, raised |-> None]
    /\ failedLoads = {}
    /\ nCalls = 0

NextServices ==
    \/ \E name \in SvcNames : register(name)
    \/ \E name \in SvcNames, failing \in SUBSET SvcNames : load(name, failing)
    \/ \E name \in SvcNames, failing \in SUBSET SvcNames : unload(name, failing)
    \/ \E failing \in SUBSET SvcNames : load_all(failing)
    \/ \E failing \in SUBSET SvcNames : close_all(failing)

InitGateway ==
    /\ wire = None
    /\ parseOut = [raised |-> None, event |-> None]
    /\ dispatched = [outcome |-> "none", raised |-> None, drops |-> 0]
    /\ nDispatch = 0

NextParser == \E data \in Payloads : Parses(data)

NextGateway ==
    \/ \E c \in GatewaySubscribeCalls :
          Subscribe(c.event_type, c.handler, c.priority, c.handler.timeout,
                    c.handler.plugin)
    \/ \E data \in GatewayPayloads : dispatch(data)
    \/ \E stop \in BOOLEAN : HandlerReturns(stop)

InitRbac ==
    /\ users = <<>>
    /\ roles = Put(<<>>, default_role, NewRole)
    /\ lastCheck = [user |-> None, path |-> <<>>, result |-> FALSE,
                    black |-> FALSE, white |-> FALSE]
    /\ inheritRaised = None

NextRbac ==
    \/ \E user \in RbacUsers : add_user(user)
    \/ \E role \in RbacRoles : add_role(role)
    \/ \E user \in RbacUsers, role \in RbacRoles : assign_role(user, role)
    \/ \E user \in RbacUsers, role \in RbacRoles \cup {default_role} :
          unassign_role(user, role)
    \/ \E child, parent \in RbacRoles : set_role_inheritance(child, parent)
    \/ \E id \in RbacUsers, path \in GrantPaths, mode \in {"white", "black"} :
          grant("user", id, path, mode)
    \/ \E id \in RbacRoles, path \in GrantPaths, mode \in {"white", "black"} :
          grant("role", id, path, mode)
    \/ \E id \in RbacUsers, path \in GrantPaths : revoke("user", id, path)
    \/ \E id \in RbacRoles, path \in GrantPaths : revoke("role", id, path)
    \/ \E user \in RbacUsers, path \in CheckPaths : check(user, path)

InitPaths ==
    /\ trie = {}
    /\ pathCall = [op |-> "none", self |-> <<>>, path |-> <<>>,
                   result |-> FALSE, raised |-> None]

NextPaths ==
    \/ \E self \in Patterns : \E path \in PathsUpTo(MaxSegs) :
          matching_path(self, path)
    \/ \E path \in AddPaths : add_path(path)

InitResolver ==
    /\ graph = <<>>
    /\ resolved = NotResolved

NextResolver ==
    \/ \E manifests \in (IF graph = <<>> THEN ManifestSets ELSE {}) :
          build(manifests)
    \/ \E perm \in InsertionOrders(DOMAIN graph) : resolve(perm)

InitWatcher ==
    /\ _paused = TRUE
    /\ _pending_dirs = {}
    /\ _reload_callback = FALSE
    /\ elapsed = debounce_delay
    /\ wpc = "scan"
    /\ dirs_to_process = {}
    /\ round = None
    /\ called = <<>>
    /\ ends = <<>>
    /\ failedBefore = FALSE
    /\ fatal = FALSE

\* the steps of the watcher thread
WatcherThread ==
    \/ \E changed \in SUBSET ChangedFiles : \E debug \in BOOLEAN :
          _scan_files(changed, debug)
    \/ _process_pending
    \/ \E plugin_dir \in PluginDirs : \E ending \in CallbackEnds :
          _trigger_reload(plugin_dir, ending)
    \/ wait

NextWatcher ==
    \/ pause
    \/ resume
    \/ set_reload_callback
    \/ WatcherThread

InitLifecycle ==
    /\ _running = FALSE
    /\ phase = "new"
    /\ lastRun = NoRun

\* the services are registered before the bot is started
NextLifecycle ==
    \/ \E name \in (IF phase = "new" THEN SvcNames ELSE {}) : register(name)
    \/ _prepare_startup
    \/ \E stage \in Stages, error \in Errors :
          \E failLoad, failClose \in SUBSET SvcNames :
             _core_execution(stage, error, failLoad, failClose)

InitBackend ==
    /\ api = FALSE
    /\ _startup_event = "none"
    /\ _main_task = "none"
    /\ cancelling = FALSE
    /\ leaving = "none"
    /\ taskResult = "none"
    /\ servicesUp = FALSE
    /\ pluginsUp = FALSE
    /\ starter = "idle"
    /\ closer = "idle"
    /\ progress = NoProgress
    /\ lastReturn = None
    /\ lastShutdown = None
    /\ reported = "none"
    /\ nStarts = 0

\* the event loop runs the core task and the coroutines that call the
\* lifecycle manager, one step at a time
NextBackend ==
    \/ \E prep \in PrepareEnds : run_backend_async(prep)
    \/ run_backend_async_wakes
    \/ \E ending \in AwaitEnds, partial \in BOOLEAN : core_task_step(ending, partial)
    \/ shutdown
    \/ shutdown_wakes
    \/ bot_exit

InitLoadRace ==
    /\ loaders = [c \in Loaders |-> IdleLoader]
    /\ awaited = {}

\* the services are registered, each once, before any coroutine loads one
NextLoadRace ==
    \/ \E name \in (IF \A c \in Loaders : loaders[c].pc = "idle"
                     THEN SvcNames \ Elems(service_classes) ELSE {}) :
          register(name)
    \/ \E c \in Loaders, name \in SvcNames, all \in BOOLEAN :
          load_begins(c, name, all)
    \/ \E c \in Loaders, ok \in BOOLEAN : load_resumes(c, ok)

\* on_load has added the plugins directory; its plugin is there already
InitScan ==
    /\ _watch_dirs = {"w1"}
    /\ _file_cache = <<>>
    /\ _first_scan_done = FALSE
    /\ disk = Put(<<>>, <<"w1", "p1", "main.py">>, 1)
    /\ scanned = {}

NextScan ==
    \/ \E directory \in WatchDirs : add_watch_dir(directory)
    \/ \E order \in DirOrders(_watch_dirs), debug \in BOOLEAN :
          watch_loop_scans(order, debug)
    \/ \E f \in WatchedFiles : write_file(f)
    \/ \E f \in WatchedFiles : remove_file(f)

InitImporter ==
    /\ _sanitized_names = <<>>
    /\ _used_sanitized = {}
    /\ sys_modules = Put(<<>>, <<"os">>, 0)
    /\ sys_path = <<"site-packages">>
    /\ nextModule = 1
    /\ importCall = [op |-> "none", plugin |-> <<>>, before |-> <<>>,
                     pathBefore |-> <<>>, raised |-> None]
    /\ nImports = 0

NextSanitize ==
    \E plugin_name \in NamesUpTo(MaxNameLen) : _ensure_sanitized(plugin_name)

\* what ends the execution of a plugin's entry module
Endings == {"ok", "Exception", "SystemExit"}

NextImporter ==
    \/ \E plugin_name \in ImpPlugins : _ensure_sanitized(plugin_name)
    \/ \E plugin_name \in ImpPlugins, imports \in SUBSET {"helper"} :
          \E ending \in Endings :
             load_plugin_module(plugin_name, imports, ending)
    \/ \E plugin_name \in ImpPlugins : unload_plugin_module(plugin_name)

NextRoles ==
    \/ \E role \in ForestRoles : add_role(role)
    \/ \E child, parent \in ForestRoles \cup {default_role} :
          set_role_inheritance(child, parent)

Init ==
    /\ InitBus /\ InitConfig /\ InitLoader /\ InitServices /\ InitGateway
    /\ InitRbac /\ InitPaths /\ InitResolver /\ InitWatcher /\ InitLifecycle
    /\ InitImporter /\ InitBackend /\ InitLoadRace /\ InitScan

SpecBus == Init /\ [][NextBus]_vars

SpecConfig == Init /\ [][NextConfig]_vars

SpecDeclare == Init /\ [][NextDeclare]_vars

SpecReload == Init /\ [][NextReload]_vars

SpecServices == Init /\ [][NextServices]_vars

SpecParser == Init /\ [][NextParser]_vars

SpecGateway == Init /\ [][NextGateway]_vars

SpecRbac == Init /\ [][NextRbac]_vars

SpecRoles == Init /\ [][NextRoles]_vars

SpecPaths == Init /\ [][NextPaths]_vars

SpecResolver == Init /\ [][NextResolver]_vars

SpecLifecycle == Init /\ [][NextLifecycle]_vars

SpecSanitize == Init /\ [][NextSanitize]_vars

SpecImporter == Init /\ [][NextImporter]_vars

SpecLoadRace == Init /\ [][NextLoadRace]_vars

SpecScan == Init /\ [][NextScan]_vars

SpecBackend == Init /\ [][NextBackend]_vars

SpecWatcher == Init /\ [][NextWatcher]_vars

\* the watcher thread keeps running: its loop takes its next step
SpecWatcherLive == Init /\ [][NextWatcher]_vars /\ WF_vars(WatcherThread)

\* ------------------------------------------------------------------------
\* Properties of EventBus (under SpecBus)
\* ------------------------------------------------------------------------

\* ids of the subscriptions in a list
HidsOf(seq) == { seq[i].hid : i \in 1..Len(seq) }

\* how many entries of seq satisfy Test
Count(seq, Test(_)) == Cardinality({ k \in DOMAIN seq : Test(seq[k]) })

\* The handlers that have come to an end in this publish are the first
\* ones of the dispatch list, in its order, and all of them once publish
\* has returned with no handler having set the stop flag.
RunsDispatchList ==
    /\ Len(log) <= Len(handlers)
    /\ \A i \in DOMAIN log : log[i].sub = handlers[i]
    /\ (outcome = "returned" /\ stopper = {}) => Len(log) = Len(handlers)

\* C1: the handlers publish invokes for an event run in descending
\* priority order, and handlers of equal priority in ascending order of
\* their names, whatever the order of the subscribe calls and whichever
\* bucket (exact, prefix, regex) they were collected from.
PriorityOrder ==
    \A i, j \in DOMAIN log :
        i < j =>
            LET x == log[i].sub
                y == log[j].sub
            IN \/ x.priority > y.priority
               \/ /\ x.priority = y.priority
                  /\ ~StrLess(y.handler.name, x.handler.name)

\* C1 witness: two handlers of equal priority have run, the one of the
\* regex bucket (collected last) before the one of the exact bucket
PriorityOrderSeen ==
    /\ Len(log) = 2
    /\ log[1].sub.priority = log[2].sub.priority
    /\ log[1].sub.pattern # None
    /\ log[2].sub.pattern = None
    /\ StrLess(log[1].sub.handler.name, log[2].sub.handler.name)

\* event type `type` equals S or starts with S followed by a dot
PrefixRule(type, S) == type = S \/ StartsWith(type, S \o <<".">>)

\* C2: a subscription with a non-regex type string S is in the dispatch
\* list of a publish exactly when the event's type equals S or starts with
\* S followed by a dot, and publish invokes the handlers of its dispatch
\* list and no others (all of them, when it returns with no handler having
\* set the stop flag).
PrefixDispatch ==
    /\ [][\A t \in EventTypes : PublishStart(t) =>
             \A S \in DOMAIN exact : \A i \in 1..Len(exact[S]) :
                 exact[S][i].hid \in HidsOf(handlers') <=> PrefixRule(t, S)]_vars
    /\ []RunsDispatchList

\* C2 witness: publish of an "a.b.c" event has returned having invoked a
\* handler subscribed to "a"
PrefixDispatchSeen ==
    /\ outcome = "returned"
    /\ event.type = T_a_b_c
    /\ T_a \in DOMAIN exact
    /\ \E i \in DOMAIN log : \E k \in 1..Len(exact[T_a]) : log[i].sub = exact[T_a][k]

UnsubscribeComplete ==
    /\ [](\A i \in DOMAIN log : \A r \in removedBefore : log[i].sub.hid # r.hid)
    /\ [][\A id \in 1..MaxSubs : Unsubscribe(id) =>
             IF id \in HidsOf(regex) \/ \E S \in DOMAIN exact : id \in HidsOf(exact[S])
             THEN \A t \in EventTypes :
                      CollectFrom(exact', regex', t)
                        = SelectSeq(CollectFrom(exact, regex, t), LAMBDA e : e.hid # id)
             ELSE exact' = exact /\ regex' = regex]_vars

\* C4 witness: a regex subscription that matches the event's type was
\* unsubscribed before this publish started; the publish has invoked the
\* handler of another subscription and returned
UnsubscribeCompleteSeen ==
    /\ outcome = "returned"
    /\ log # <<>>
    /\ \E r \in removedBefore : r.pattern # None /\ ReMatch(r.pattern[1], event.type)

\* the HandlerTimeoutError publish records for subscription h: the owner's
\* metadata (Unknown for one without owner), the handler's name, the timeout
TimeoutEntryOf(h) ==
    HandlerTimeoutError(IF h.handler.plugin # None
                        THEN h.handler.plugin[1].meta_data ELSE UnknownMeta,
                        h.handler.name, h.timeout)

\* C5: a handler that has timed out has one HandlerTimeoutError entry on
\* the event and is no longer running while publish goes on with the next
\* handlers.
TimeoutCancelsHandler ==
    \A i \in DOMAIN log :
        log[i].did = "timeout" =>
            /\ \E k \in DOMAIN event.exceptions :
                   /\ event.exceptions[k].type = "HandlerTimeoutError"
                   /\ event.exceptions[k].handler = log[i].sub.handler.name
                   /\ event.exceptions[k].time = log[i].sub.timeout
            /\ i \notin threads

\* C6: once a handler has set the stop flag, no handler ordered after it
\* in the dispatch list is invoked.
StopSkipsRest == \A s \in stopper : idx <= s

\* C7: publish raises to its caller only what a handler raised that is no
\* Exception (a BaseException such as CancelledError or SystemExit), and
\* then at once; after an Exception raised by a handler, sync or async,
\* and after a timeout, publish goes on and returns.
OnlyBaseExceptionEscapes ==
    /\ outcome = "raised" => (log # <<>> /\ log[Len(log)].did = "BaseException")
    /\ \A i \in DOMAIN log :
           log[i].did = "BaseException" => (i = Len(log) /\ outcome = "raised")

\* C7 witness: a sync handler raised an Exception, another handler timed
\* out, and publish returned
OnlyBaseExceptionEscapesSeen ==
    /\ outcome = "returned"
    /\ \E i, j \in DOMAIN log :
           /\ log[i].did = "Exception" /\ log[i].sub.handler.sync
           /\ log[j].did = "timeout"

\* C7 as stated: publish never raises to its caller
PublishNeverRaises == outcome # "raised"

\* the return values of the handlers that returned, in the order they ran
ReturnValues ==
    LET ok == SelectSeq(log, LAMBDA l : l.did = "return")
    IN [k \in DOMAIN ok |-> ok[k].sub.hid]

HandlersNeverOverlap == pc = "await" => threads = {}

\* ------------------------------------------------------------------------
\* Properties of PluginConfigService (under SpecConfig)
\* ------------------------------------------------------------------------

\* what get(plugin_name, name) returns after a crash now and a restart
GetAfterRestart(plugin_name, name) ==
    LET loaded == _load_from_file
    IN IF plugin_name \in DOMAIN loaded /\ name \in DOMAIN loaded[plugin_name]
       THEN Some(loaded[plugin_name][name])
       ELSE None

\* C10: once set_atomic(p, k, v) has returned, a crash at any later point
\* and a restart yield get(p, k) = v (until p.k is written again).
SetAtomicDurable ==
    \A key \in DOMAIN acked : GetAfterRestart(key[1], key[2]) = Some(acked[key])

\* ------------------------------------------------------------------------
\* Properties of the config declarations (under SpecDeclare)
\* ------------------------------------------------------------------------

\* a step of register_config(q, n, d, t): it makes no set call and no
\* unload, and either records a declaration or raises
RegisterStep(q, n, d, t) ==
    /\ nSets' = nSets
    /\ unloads' = unloads
    /\ config_items' # config_items \/ regRaised' # None
    /\ register_config(q, n, d, t)

\* C11: unloading a plugin removes all of its config declarations and keeps
\* every value stored for it; a load that follows declares its configs with
\* register_config, which leaves each stored value in place of the default.
UnloadKeepsValues ==
    [][/\ \A q \in CfgPlugins :
            UnloadClearsDeclarations(q) =>
               /\ get_registered_configs(q)' = {}
               /\ get_plugin_config(q)' = get_plugin_config(q)
               /\ \A n \in CfgNames : get(q, n)' = get(q, n)
       /\ \A q \in CfgPlugins, n \in CfgNames, d \in CfgDefaults, t \in ValueTypes :
            (q \in unloads /\ get(q, n) # None /\ RegisterStep(q, n, d, t)) =>
               get(q, n)' = get(q, n)]_vars

\* p was unloaded holding k = 2, was loaded again declaring k with default
\* 1, and k is still 2
UnloadKeepsValuesSeen ==
    /\ "p" \in unloads
    /\ get_registered_configs("p") = {"k"}
    /\ config_items["p"]["k"].default_value = 1
    /\ regRaised = None
    /\ get("p", "k") = Some(2)
    /\ ~dirty

\* C13: register_config seeds the default only when no value is stored for
\* (plugin, name): a stored value stays as it is and the store is not marked
\* changed; a list default that is seeded is stored as a deep copy, which
\* no later change of the caller's list reaches.
SeedOnlyWhenAbsent ==
    [][/\ \A q \in CfgPlugins, n \in CfgNames, d \in CfgDefaults, t \in ValueTypes :
            RegisterStep(q, n, d, t) =>
               /\ get(q, n) # None => (configs' = configs /\ dirty' = dirty)
               /\ (get(q, n) = None /\ t = "list" /\ n \notin get_registered_configs(q)) =>
                     /\ get(q, n)' = Some(d)
                     /\ dirty'
                     /\ <<q, n>> \notin shared'
       /\ \A q \in CfgPlugins, n \in CfgNames, v \in SetValues :
            (regRaised' = regRaised /\ CallerMutatesDefault(q, n, v)) => configs' = configs]_vars

\* k was seeded from the list [1]; the caller has since changed its list to
\* [2], and the stored value is still [1]
SeedOnlyWhenAbsentSeen ==
    /\ "k" \in get_registered_configs("p")
    /\ config_items["p"]["k"].value_type = "list"
    /\ config_items["p"]["k"].default_value = ListOf(2)
    /\ get("p", "k") = Some(ListOf(1))
    /\ <<"p", "k">> \notin shared
    /\ unloads = {}
    /\ nSets = 0

\* C14: register_config for a name the plugin has already declared raises
\* and leaves the declaration map and the value map as they were; once the
\* declarations are cleared by unload, the name is registered again without
\* that error.
DuplicateDeclarationRaises ==
    [][\A q \in CfgPlugins, n \in CfgNames, d \in CfgDefaults, t \in ValueTypes :
          RegisterStep(q, n, d, t) =>
             IF n \in get_registered_configs(q)
             THEN /\ regRaised' = Some("ValueError")
                  /\ config_items' = config_items
                  /\ configs' = configs
             ELSE /\ regRaised' # Some("ValueError")
                  /\ n \in get_registered_configs(q)']_vars

\* p was unloaded, k has been declared again, and a further
\* register_config of k has raised
DuplicateDeclarationRaisesSeen ==
    /\ "p" \in unloads
    /\ "k" \in get_registered_configs("p")
    /\ regRaised = Some("ValueError")
    /\ get("p", "k") = Some(1)

\* ------------------------------------------------------------------------
\* Properties of the plugin loader (under SpecReload)
\* ------------------------------------------------------------------------

\* C12: whenever the plugin is loaded, after its first load or after an
\* unload and a load, exactly what its first load registered is registered
\* for it (commands, aliases, subscriptions it owns, declared config names:
\* none missing, none twice), and while it is unloaded none of it is.
ReloadIdempotent ==
    /\ ldr.state = "loaded" => firstLoad = Some(Registered)
    /\ (ldr.state = "unloaded" /\ nLoads > 0) => Registered = NothingRegistered
    /\ ldr.state # "failed"

\* the plugin is loaded for the second time
ReloadIdempotentSeen ==
    /\ nLoads = 2
    /\ ldr.state = "loaded"
    /\ Registered.nSubscriptions = 2
    /\ Len(Registered.commands) = 1
    /\ Registered.configs = {"k"}
    /\ get("p", "k") = Some(2)

\* ------------------------------------------------------------------------
\* Properties of the service manager (under SpecServices)
\* ------------------------------------------------------------------------

\* the place of a name in a sequence of distinct names
PlaceIn(names, name) == CHOOSE i \in DOMAIN names : names[i] = name

\* load_all invokes _load() on services in the order of their registration
LoadsInRegistrationOrder ==
    lastCall.op = "load_all" =>
        \A i, j \in DOMAIN lastCall.loads :
            i < j => PlaceIn(service_classes, lastCall.loads[i].name)
                        < PlaceIn(service_classes, lastCall.loads[j].name)

\* close_all invokes _close() on services in the reverse of the order in
\* which they were loaded
ClosesInReverseLoadOrder ==
    lastCall.op = "close_all" =>
        \A i, j \in DOMAIN lastCall.closes :
            i < j => PlaceIn(NamesOf(lastCall.before), lastCall.closes[i])
                        > PlaceIn(NamesOf(lastCall.before), lastCall.closes[j])

\* C15: load_all loads the services in the order in which they were
\* registered, and close_all closes the loaded services in the reverse of
\* the order in which they were loaded.
ManagerOrdering == LoadsInRegistrationOrder /\ ClosesInReverseLoadOrder

\* C16: when the on_load of a service raises, load(name) raises to its
\* caller and the service is not in the instance registry afterwards
\* (has(name) is false, get(name) is None); no instance whose load failed
\* is ever in the registry, and a load of a name that has no loaded
\* instance invokes _load() on an instance constructed by that call.
FailedLoadLeavesUnregistered ==
    /\ \A e \in failedLoads : e \notin Elems(services)
    /\ lastCall.op = "load"
         /\ lastCall.arg \in Elems(service_classes)
         /\ lastCall.arg \notin Elems(NamesOf(lastCall.before))
       => /\ Len(lastCall.loads) = 1
          /\ lastCall.loads[1].name = lastCall.arg
          /\ lastCall.loads[1].inst >= lastCall.instBefore
          /\ lastCall.loads[1] \notin failedLoads => lastCall.raised = None
          /\ lastCall.arg \in lastCall.failing =>
                /\ lastCall.raised = Some("RuntimeError")
                /\ ~has(lastCall.arg)
                /\ ServiceGet(lastCall.arg) = None
                /\ lastCall.loads[1] \in failedLoads

\* a load of a raised, and a later load of a succeeded with another instance
FailedLoadLeavesUnregisteredSeen ==
    /\ lastCall.op = "load"
    /\ lastCall.arg = "a"
    /\ lastCall.raised = None
    /\ \E e \in failedLoads : e.name = "a" /\ ServiceGet("a") = Some(e.inst + 1)

\* C17: when the close of a loaded service raises during close_all, the
\* failure does not reach the caller and every other loaded service is
\* closed and removed from the registry.
CloseFailuresSwallowed ==
    lastCall.op = "close_all" =>
        /\ lastCall.raised = None
        /\ \A name \in Elems(NamesOf(lastCall.before)) \ lastCall.failing :
              /\ name \in Elems(lastCall.closes)
              /\ ~has(name)

\* ------------------------------------------------------------------------
\* Properties of the parser and the dispatcher (under SpecParser, SpecGateway)
\* ------------------------------------------------------------------------

\* no event class is registered for the payload's post_type and sub-key
NoVariant(data) ==
    \A c \in _registry :
        ~(c.post_type = data.post_type /\ c.key = _get_secondary_key(data))

\* C18: a dispatch of a payload whose (post_type, sub-key) has no registered
\* event class does not raise and leaves the bus as it was: nothing is
\* published and no handler is invoked, whatever is subscribed; a dispatch
\* of a valid payload, after drops or not, publishes the event under the
\* type of its post_type to the handlers subscribed for that type.
UnknownEventDropped ==
    [][\A data \in GatewayPayloads : dispatch(data) =>
          /\ dispatched'.raised = None
          /\ IF NoVariant(data)
             THEN /\ dispatched'.outcome = "dropped"
                  /\ UNCHANGED busVars
             ELSE /\ dispatched'.outcome = "published"
                  /\ event'.type = PublishedAs(data.post_type)
                  /\ handlers' = _collect_handlers(event'.type)
                  /\ pc' = IF handlers' = <<>> THEN "done" ELSE "await"]_vars

\* with a regex subscription matching every type, a payload was dropped,
\* and the valid payload dispatched after it has reached both handlers
UnknownEventDroppedSeen ==
    /\ dispatched.outcome = "published"
    /\ dispatched.drops > 0
    /\ regex # <<>>
    /\ pc = "done"
    /\ Len(log) = 2

BlackOverridesWhite ==
    /\ lastCheck.black => lastCheck.result = FALSE
    /\ \A user \in DOMAIN users, path \in CheckPaths :
          (\/ TrieMatch(users[user].black, path)
           \/ \E role \in Subjects(users, roles, user) :
                 TrieMatch(roles[role].black, path))
          => Check(users, roles, user, path) = FALSE

\* check("u", "a.*") has returned false for a user that holds a.b on its
\* own white list and only on the black list of the parent of its role
BlackOverridesWhiteSeen ==
    /\ lastCheck.user = Some("u")
    /\ lastCheck.path = <<"a", "*">>
    /\ lastCheck.black
    /\ lastCheck.white
    /\ lastCheck.result = FALSE
    /\ "u" \in DOMAIN users
    /\ users["u"].white = {P_a_b}
    /\ users["u"].black = {}
    /\ users["u"].roles = {default_role, "r1"}
    /\ {"r1", "r2"} \subseteq DOMAIN roles
    /\ roles["r1"].parent = Some("r2")
    /\ roles["r1"].black = {}
    /\ roles["r2"].black = {P_a_b}

\* the roles reached from a role by one or more parent links
AncestorsOf(rs, role) ==
    LET first  == Parents(rs, {role})
        second == first \cup Parents(rs, first)
        third  == second \cup Parents(rs, second)
    IN third \cup Parents(rs, third)

\* C21: no role is ever its own ancestor; a set_role_inheritance(child,
\* parent) with child = parent, or with child an ancestor of parent, raises
\* and leaves every role and every edge as it was; any other sets the one
\* edge and leaves the others.
RoleInheritanceAcyclic ==
    /\ [](\A role \in DOMAIN roles : role \notin AncestorsOf(roles, role))
    /\ [][\A child, parent \in ForestRoles \cup {default_role} :
            set_role_inheritance(child, parent) =>
                IF child = parent \/ child \in AncestorsOf(roles, parent)
                THEN roles' = roles /\ inheritRaised' = Some("ValueError")
                ELSE /\ inheritRaised' = None
                     /\ roles'[child].parent = Some(parent)
                     /\ \A role \in DOMAIN roles \ {child} :
                           roles'[role] = roles[role]]_vars

\* r1 inherits r2, r2 inherits r3, and the edge from r3 to r1 was refused
RoleInheritanceAcyclicSeen ==
    /\ ForestRoles \subseteq DOMAIN roles
    /\ roles["r1"].parent = Some("r2")
    /\ roles["r2"].parent = Some("r3")
    /\ roles["r3"].parent = None
    /\ inheritRaised = Some("ValueError")

\* a list of the user, or of a role reached from the user's roles by parent
\* links, matches the path
ClosureHolds(us, rs, user, path, list) ==
    \/ TrieMatch(us[user][list], path)
    \/ \E role \in Subjects(us, rs, user) : TrieMatch(rs[role][list], path)

\* C22: check(user, path) is true exactly when no black list of the user or
\* of a role reached from its assigned roles by parent links matches and a
\* white list of one of them does; without a matching white entry the
\* check is false; once a role is unassigned, a path whose only white
\* entries were reached through it is denied.
CheckIsInheritanceClosure ==
    /\ [](\A user \in DOMAIN users : \A path \in CheckPaths :
            Check(users, roles, user, path) <=>
                /\ ~ClosureHolds(users, roles, user, path, "black")
                /\ ClosureHolds(users, roles, user, path, "white"))
    /\ [](lastCheck.user # None =>
            lastCheck.result <=> (~lastCheck.black /\ lastCheck.white))
    /\ [][\A user \in RbacUsers : \A role \in RbacRoles \cup {default_role} :
            unassign_role(user, role) =>
                \A path \in CheckPaths :
                    ~ClosureHolds(users', roles', user, path, "white") =>
                        ~Check(users', roles', user, path)]_vars

\* a check was allowed, and now r1, whose parent r2 holds the only white
\* entry, is no longer assigned and the same check is denied
CheckIsInheritanceClosureSeen ==
    /\ lastCheck.user = Some("u")
    /\ lastCheck.result
    /\ {"r1", "r2"} \subseteq DOMAIN roles
    /\ roles["r1"].parent = Some("r2")
    /\ roles["r1"].white = {}
    /\ roles["r2"].white = {P_a_b}
    /\ roles[default_role].white = {}
    /\ users["u"].white = {}
    /\ users["u"].roles \cap {"r1", "r2"} = {}
    /\ ~Check(users, roles, "u", lastCheck.path)

DepsOf(g, S) == UNION { g[k] : k \in S \cap DOMAIN g }

\* the plugins a plugin depends on, directly or not
Reaches(g, name) ==
    LET first  == DepsOf(g, {name})
        second == first \cup DepsOf(g, first)
        third  == second \cup DepsOf(g, second)
        fourth == third \cup DepsOf(g, third)
    IN fourth \cup DepsOf(g, fourth)

HasCycle(g) == \E name \in DOMAIN g : name \in Reaches(g, name)

PlaceOf(order, name) == CHOOSE i \in 1..Len(order) : order[i] = name

\* C24: a resolve of an acyclic manifest set returns an order that holds
\* each plugin once and every dependency before its dependent; a resolve
\* of a manifest set with a cycle raises the circular-dependency error.
DependencyOrder ==
    resolved.done =>
        IF HasCycle(graph)
        THEN resolved.raised = Some("PluginCircularDependencyError")
        ELSE /\ resolved.raised = None
             /\ Len(resolved.order) = Cardinality(DOMAIN graph)
             /\ \A name \in DOMAIN graph :
                   \E i \in 1..Len(resolved.order) : resolved.order[i] = name
             /\ \A name \in DOMAIN graph : \A dep \in graph[name] :
                   PlaceOf(resolved.order, dep) < PlaceOf(resolved.order, name)

\* the diamond (A on B and C, both on D) was resolved
DependencyOrderSeen ==
    /\ resolved.done
    /\ DOMAIN graph = PluginNames
    /\ graph["A"] = {"B", "C"}
    /\ graph["B"] = {"D"}
    /\ graph["C"] = {"D"}
    /\ graph["D"] = {}
    /\ resolved.order = <<"D", "C", "B", "A">>

\* the first-level directories of the changed files
DirsOf(changed) == { parts[1] : parts \in { f \in changed : Len(f) > 1 } }

CalledDirs == { called[i] : i \in 1..Len(called) }

\* while paused no callback is invoked
PausedNeverInvokes ==
    [][\A plugin_dir \in PluginDirs : \A ending \in CallbackEnds :
          _trigger_reload(plugin_dir, ending) => _paused]_vars

\* a scan made while paused adds the directories it finds changed, and
\* nothing leaves the pending set while the pause lasts
PausedKeepsPending ==
    /\ [][\A changed \in SUBSET ChangedFiles :
            ~_paused /\ _scan_files(changed, TRUE) =>
                _pending_dirs' = _pending_dirs \cup DirsOf(changed)]_vars
    /\ [][~_paused /\ ~_paused' => _pending_dirs \subseteq _pending_dirs']_vars

\* from a time after which the watcher stays resumed with a callback set
\* and its thread running, a pending directory is eventually passed to the
\* callback
ResumedDelivers ==
    \A plugin_dir \in PluginDirs :
        []((plugin_dir \in _pending_dirs
               /\ [](_paused /\ _reload_callback /\ wpc # "ended"))
              => <>(plugin_dir \in CalledDirs))

\* C25: while the watcher is paused the reload callback is never invoked,
\* scans go on and the directories they find changed stay pending; after
\* resume, with the thread running and a callback set, every pending
\* directory is eventually passed to the callback.
PauseResume == PausedNeverInvokes /\ PausedKeepsPending /\ ResumedDelivers

\* a dispatch round begins only with a directory pending, the gate open and
\* debounce_delay elapsed since the round before; it takes the whole
\* pending set, leaves it empty and restarts the delay
RoundGuarded ==
    [][round = None /\ round' # None =>
          /\ _pending_dirs # {}
          /\ _paused
          /\ elapsed >= debounce_delay
          /\ round'[1].snapshot = _pending_dirs
          /\ _pending_dirs' = {}
          /\ elapsed' = 0]_vars

\* no directory is passed to the callback twice in a round, nor outside one
CalledOnce ==
    /\ \A i, j \in 1..Len(called) : i # j => called[i] # called[j]
    /\ round = None => called = <<>>

CleanedUp ==
    /\ lastRun.cleanups = 1
    /\ lastRun.log = <<"unload_all", "close_all">>
    /\ Elems(NamesOf(lastRun.loaded)) \subseteq Elems(lastRun.closes)
    /\ services = <<>>

\* C27: however a core execution ends once startup has begun (listen
\* returns; load_all, load_plugins or listen raises; the task is
\* cancelled), its cleanup runs exactly once, unloads the plugins, then
\* closes every loaded service, and no service stays loaded.
CleanupOnEveryPath == phase = "stopped" => CleanedUp

\* the same when no on_close of a loaded service raises
CleanupWhenClosesReturn ==
    phase = "stopped" /\ lastRun.failing = {} => CleanedUp /\ lastRun.raised = None

\* a cancelled listen with two services loaded was cleaned up
CleanupWhenClosesReturnSeen ==
    /\ phase = "stopped"
    /\ lastRun.how = "CancelledError"
    /\ lastRun.stage = "listen"
    /\ Len(lastRun.loaded) = 2
    /\ lastRun.failing = {}
    /\ CleanedUp

\* a non-empty string of ASCII letters, digits and underscores that does
\* not begin with a digit
IsIdentifier(str) ==
    /\ str # <<>>
    /\ \A i \in 1..Len(str) : str[i] \in WordChars
    /\ str[1] \notin Elems(Digits)

\* C30: two distinct plugin names never have the same sanitized name; the
\* sanitized name of a plugin name never changes once given; every
\* sanitized name is non-empty, made of ASCII letters, digits and
\* underscores, and does not begin with a digit.
SanitizedUniqueStable ==
    /\ [](\A n1, n2 \in DOMAIN _sanitized_names :
            n1 # n2 => _sanitized_names[n1] # _sanitized_names[n2])
    /\ [](\A name \in DOMAIN _sanitized_names :
            IsIdentifier(_sanitized_names[name]))
    /\ [][\A name \in DOMAIN _sanitized_names :
            /\ name \in DOMAIN _sanitized_names'
            /\ _sanitized_names'[name] = _sanitized_names[name]]_vars

\* "1" became "_1", and "-1", which has the same base, "_1_1"
SanitizedUniqueStableSeen ==
    /\ {<<"1">>, <<"-", "1">>} \subseteq DOMAIN _sanitized_names
    /\ _sanitized_names[<<"1">>] = <<"_", "1">>
    /\ _sanitized_names[<<"-", "1">>] = <<"_", "1", "_", "1">>

\* C28: after a load_plugin_module that failed, sys.modules holds no entry
\* the call added, the entries it held before are as they were, and
\* sys.path is what it was before the call.
LoadRollsBack ==
    importCall.op = "load" /\ importCall.raised # None =>
        /\ sys_modules = importCall.before
        /\ sys_path = importCall.pathBefore

\* the same for an entry that raises an Exception before it has imported
\* a module of its package, its own name not being registered before
LoadRollsBackEntry ==
    /\ importCall.op = "load" => sys_path = importCall.pathBefore
    /\ /\ importCall.op = "load"
       /\ importCall.raised \in {Some("Exception"), Some("KeyError")}
       /\ _get_plugin_main_module_name(importCall.plugin)
             \notin DOMAIN importCall.before
       /\ \A key \in DOMAIN sys_modules \ DOMAIN importCall.before :
             key \in {_get_plugin_pkg_name(importCall.plugin),
                      _get_plugin_main_module_name(importCall.plugin)}
       => sys_modules = importCall.before

\* the key names the plugin's package or a module below it, part by part
BelongsTo(key, plugin_name) ==
    IsPrefix(SplitDot(_get_plugin_pkg_name(plugin_name)), SplitDot(key))

\* C29: after unload_plugin_module(p), sys.modules holds no key that is
\* p's package or lies below it, and every other key it held, the modules
\* of a plugin whose sanitized name begins with p's among them, is there
\* with the same module.
UnloadRemovesExactly ==
    importCall.op = "unload" =>
        /\ DOMAIN sys_modules \subseteq DOMAIN importCall.before
        /\ \A key \in DOMAIN importCall.before :
              IF BelongsTo(key, importCall.plugin)
              THEN key \notin DOMAIN sys_modules
              ELSE /\ key \in DOMAIN sys_modules
                   /\ sys_modules[key] = importCall.before[key]

\* "a" was unloaded with "a_" loaded: the modules of "a_" are still there
UnloadRemovesExactlySeen ==
    /\ importCall.op = "unload"
    /\ importCall.plugin = <<"a">>
    /\ <<"ncatbot_plugin", ".", "a", ".", "main">> \in DOMAIN importCall.before
    /\ <<"ncatbot_plugin", ".", "a">> \notin DOMAIN sys_modules
    /\ <<"ncatbot_plugin", ".", "a", ".", "main">> \notin DOMAIN sys_modules
    /\ <<"ncatbot_plugin", ".", "a", "_">> \in DOMAIN sys_modules
    /\ <<"ncatbot_plugin", ".", "a", "_", ".", "main">> \in DOMAIN sys_modules

\* the watcher thread has not been ended by a callback
ThreadRuns == wpc # "ended"

\* a round that had a callback and is over has passed every directory of
\* its snapshot to it
RoundComplete ==
    round # None /\ round[1].callback /\ wpc \in {"wait", "scan", "process"}
        => CalledDirs = round[1].snapshot

\* C31 as stated: whatever a reload callback raises, the thread goes on,
\* the other directories of the round get their callback, and the loop
\* comes back to its scan again and again.
CallbackFailureContained ==
    /\ [](ThreadRuns)
    /\ [](RoundComplete)
    /\ []<>(wpc = "scan")

\* C31, amended: the same for a callback that raises an Exception; the
\* thread ends only by a callback raising a BaseException that is no
\* Exception, and as long as none does the loop comes back to its scan.
CallbackExceptionContained ==
    /\ [](~fatal => ThreadRuns)
    /\ [](RoundComplete)
    /\ (<>fatal \/ []<>(wpc = "scan"))

\* after a round in which a callback raised an Exception, a later round in
\* which the callback of p1 raised one and that of p2 was invoked all the
\* same
CallbackExceptionContainedSeen ==
    /\ failedBefore
    /\ ~fatal
    /\ round # None
    /\ round[1].snapshot = {"p1", "p2"}
    /\ called = <<"p1", "p2">>
    /\ ends = <<"Exception", "ok">>
    /\ wpc = "wait"

\* a directory leaves the pending set only as part of the snapshot of a
\* round that begins
LeavesIntoRound ==
    [][\A plugin_dir \in PluginDirs :
          plugin_dir \in _pending_dirs /\ plugin_dir \notin _pending_dirs' =>
              round' # None /\ plugin_dir \in round'[1].snapshot]_vars

\* C38: a directory leaves the pending set only in a dispatch round that
\* invokes the reload callback for it, also in a round that begins before
\* a callback is registered.
PendingNeverDropped ==
    /\ LeavesIntoRound
    /\ [](round # None /\ wpc \in {"wait", "scan", "process"} =>
            round[1].snapshot \subseteq CalledDirs)

\* the instance registered under a name in a registry, or None
InstanceIn(entries, name) ==
    IF name \in Elems(NamesOf(entries))
    THEN Some(entries[CHOOSE i \in DOMAIN entries : entries[i].name = name].inst)
    ELSE None

\* C32: load(name) of a loaded service returns the instance that is
\* registered, constructs no instance and invokes no on_load; load of a
\* name never registered raises KeyError; either way the registry is left
\* as it was.
LoadIdempotent ==
    lastCall.op = "load" =>
        /\ lastCall.arg \in Elems(NamesOf(lastCall.before)) =>
              /\ lastCall.raised = None
              /\ lastCall.loads = <<>>
              /\ nextInst = lastCall.instBefore
              /\ services = lastCall.before
              /\ ServiceGet(lastCall.arg) = InstanceIn(lastCall.before, lastCall.arg)
        /\ lastCall.arg \notin Elems(service_classes) =>
              /\ lastCall.raised = Some("KeyError")
              /\ lastCall.loads = <<>>
              /\ nextInst = lastCall.instBefore
              /\ services = lastCall.before

\* a load of a with a and b loaded, whose on_load would raise if it were
\* invoked
LoadIdempotentSeen ==
    /\ lastCall.op = "load"
    /\ lastCall.arg = "a"
    /\ lastCall.failing = {"a"}
    /\ Elems(NamesOf(lastCall.before)) = {"a", "b"}
    /\ lastCall.raised = None
    /\ services = lastCall.before

\* a run_backend_async call that returned gave back a BotAPI, and startup
\* was complete by then
ReturnedAfterStartup ==
    lastReturn # None => lastReturn[1].handle /\ lastReturn[1].complete

\* the call that created the core task returns only with the startup
\* event set, and raises when the task is done as it wakes
StarterWaitsForStartup ==
    /\ [][starter # "returned" /\ starter' = "returned" =>
            /\ _startup_event = "set"
            /\ lastReturn' = Some([handle |-> TRUE, complete |-> TRUE,
                                   own |-> TRUE])]_vars
    /\ [][starter = "waiting" /\ _main_task = "done" => starter' # "returned"]_vars

\* a core task is created only while the bot is not running
NoSecondTask ==
    [][_main_task' = "created" /\ _main_task # "created" =>
          ~_running /\ ~TaskLive]_vars

\* C33: run_backend_async returns the API handle only after the services
\* are loaded, the dispatcher is attached and plugin loading has finished;
\* it raises when the core task ends before the startup event is set; a
\* call made while the bot is running creates no second core task.
BackendStartup ==
    /\ [](ReturnedAfterStartup)
    /\ StarterWaitsForStartup
    /\ NoSecondTask

\* the same for the call that created the core task only
BackendStartupOfStarter ==
    /\ [](lastReturn # None /\ lastReturn[1].own => ReturnedAfterStartup)
    /\ StarterWaitsForStartup
    /\ NoSecondTask

\* C34: when shutdown() returns after a successful start, the plugins are
\* unloaded and the services closed, whenever it was called.
ShutdownWaits ==
    lastShutdown # None /\ lastShutdown[1].started =>
        ~lastShutdown[1].plugins /\ ~lastShutdown[1].services

\* the same for a shutdown() that awaited the core task, when no on_close
\* raised
ShutdownWaitsWhenRunning ==
    lastShutdown # None /\ lastShutdown[1].started /\ lastShutdown[1].waited
            /\ lastShutdown[1].result # "Exception" =>
        ~lastShutdown[1].plugins /\ ~lastShutdown[1].services

\* C40: the running flag is set only while a core task exists that has
\* not reached its cleanup.
RunningOnlyWhileLive == _running => _main_task \in StartupPlaces

\* a core task that entered its coroutine ends with the flag cleared, and
\* a start that failed before the gateway launch leaves it clear
RunningClearedByCleanup ==
    /\ [](_main_task \in {"unload_all", "close_all"} => ~_running)
    /\ [][\A prep \in {"illegal", "invalid"} :
            ~_running /\ run_backend_async(prep) => ~_running']_vars

\* C36: every key of the owner-metadata map is the id of a subscription
\* held by the exact or regex tables; so a subscribe that raises, an
\* unsubscribe and a shutdown leave no metadata without a subscription.
MetaKeysSubscribed == DOMAIN handler_meta \subseteq { t.hid : t \in TableEntries }

\* the same with the ids of subscribe calls that raised left aside:
\* metadata is held only for ids that are subscribed or whose subscribe
\* raised, and unsubscribe and shutdown leave none for the ids they remove
MetaKeysIssued ==
    /\ [](DOMAIN handler_meta \subseteq 1..(nextHid - 1))
    /\ [][\A id \in 1..MaxSubs :
            UnsubscribeCall(id) => id \notin DOMAIN handler_meta']_vars
    /\ [][Shutdown => handler_meta' = <<>>]_vars

\* C37: with no save in progress and the dirty flag clear, the
\* plugin_config section of the file is the value map in memory, so no
\* update is lost by overlapping saves.
NoLostUpdate == tasks = <<>> /\ ~dirty => _load_from_file = configs

\* C35: _load(), and with it on_load, is awaited for at most one instance
\* per name, also when load and load_all calls overlap (no service is
\* unloaded here).
OneLoadPerName ==
    \A e1, e2 \in awaited : e1.name = e2.name => e1.inst = e2.inst

\* no file differs from what an earlier scan of its watch directory saw:
\* every cached file is on disk with the cached time, and every file not
\* cached lies in a watch directory not scanned so far
NothingChanged ==
    /\ \A f \in DOMAIN _file_cache :
          f \in DOMAIN disk /\ disk[f] = _file_cache[f]
    /\ \A f \in DOMAIN disk \ DOMAIN _file_cache : f[1] \notin scanned

\* C39: the files that exist when a watch directory is scanned for the
\* first time mark no plugin directory as pending; so a loop iteration
\* that finds nothing changed since the earlier scans leaves the pending
\* set as it is, whichever watch directories it scans for the first time.
FirstScanMarksNothing ==
    [][\A order \in DirOrders(_watch_dirs), debug \in BOOLEAN :
          NothingChanged /\ watch_loop_scans(order, debug) =>
              _pending_dirs' = _pending_dirs]_vars

\* the same for the first scan the watcher makes at all, of one watch
\* directory
VeryFirstScanMarksNothing ==
    [][\A order \in DirOrders(_watch_dirs), debug \in BOOLEAN :
          ~_first_scan_done /\ Len(order) = 1 /\ watch_loop_scans(order, debug) =>
              _pending_dirs' = _pending_dirs]_vars

====
